---- MODULE Spec2Model ----
(***************************************************************************)
(* A model of the two-pass 8080 cross-assembler (src/src/Assembler.cpp).   *)
(* Source text is modelled character by character: a string of the program *)
(* is a sequence of one-character strings, so that tokenising, case        *)
(* folding, trimming and substring search behave as the C++ code does.     *)
(* Symbol names, mnemonics and parsed operands are kept as such sequences  *)
(* while they are text, and turned into TLA+ strings (Str) only when they  *)
(* are used as keys of the symbol table, the macro table and the mnemonic  *)
(* tables.                                                                 *)
(***************************************************************************)
EXTENDS Integers, Sequences, FiniteSets, TLC

(***************************************************************************)
(* Characters.                                                             *)
(***************************************************************************)
UpperLetters ==
  <<"A","B","C","D","E","F","G","H","I","J","K","L","M",
    "N","O","P","Q","R","S","T","U","V","W","X","Y","Z">>

LowerLetters ==
  <<"a","b","c","d","e","f","g","h","i","j","k","l","m",
    "n","o","p","q","r","s","t","u","v","w","x","y","z">>

DigitChars == <<"0","1","2","3","4","5","6","7","8","9">>

\* The digits of strtoul/stoi, by value: "0".."9", then "a".."z" for 10..35.
RadixDigits == DigitChars \o LowerLetters

\* The printable ASCII characters, 32 to 126, in code order.  A TLA+ string
\* cannot hold a backquote (code 96): "(backquote)" keeps its place.
PrintableChars ==
  <<" ","!","\"","#","$","%","&","'","(",")","*","+",",","-",".","/">>
  \o DigitChars \o <<":",";","<","=",">","?","@">>
  \o UpperLetters \o <<"[","\\","]","^","_","(backquote)">>
  \o LowerLetters \o <<"{","|","}","~">>

IndexOf(tab, c) ==
  IF \E i \in 1..Len(tab) : tab[i] = c
  THEN CHOOSE i \in 1..Len(tab) : tab[i] = c
  ELSE 0

isspace(c) == c \in {" ", "\t", "\r", "\n"}
isdigit(c) == IndexOf(DigitChars, c) # 0
isalpha(c) == IndexOf(UpperLetters, c) # 0 \/ IndexOf(LowerLetters, c) # 0
isalnum(c) == isalpha(c) \/ isdigit(c)

tolower(c) ==
  IF IndexOf(UpperLetters, c) # 0 THEN LowerLetters[IndexOf(UpperLetters, c)] ELSE c

\* The byte value of a character (static_cast<uint8_t>(c)).
char_code(c) == IF c = "\t" THEN 9 ELSE IndexOf(PrintableChars, c) + 31

(***************************************************************************)
(* Strings: the helper functions of Assembler.cpp and the std::string and  *)
(* std::stringstream operations the code uses.  Positions are 1-based; 0   *)
(* stands for std::string::npos.                                           *)
(***************************************************************************)
RECURSIVE Str(_)
Str(s) == IF Len(s) = 0 THEN "" ELSE s[1] \o Str(Tail(s))

RECURSIVE ltrim(_)
ltrim(s) == IF Len(s) > 0 /\ isspace(s[1]) THEN ltrim(Tail(s)) ELSE s

RECURSIVE rtrim(_)
rtrim(s) ==
  IF Len(s) > 0 /\ isspace(s[Len(s)]) THEN rtrim(SubSeq(s, 1, Len(s) - 1)) ELSE s

trim(s) == rtrim(ltrim(s))

RECURSIVE to_lower(_)
to_lower(s) == IF Len(s) = 0 THEN <<>> ELSE <<tolower(s[1])>> \o to_lower(Tail(s))

\* s.find(pat, pos): the first position >= pos where pat occurs; an empty
\* pattern is found at every position up to the end of s.
find(s, pat, pos) ==
  LET hits == { i \in pos..(Len(s) - Len(pat) + 1) :
                  SubSeq(s, i, i + Len(pat) - 1) = pat }
  IN  IF hits = {} THEN 0 ELSE CHOOSE i \in hits : \A j \in hits : i <= j

\* s.rfind(pat, 0) == 0: s starts with pat.
starts_with(s, pat) == Len(s) >= Len(pat) /\ SubSeq(s, 1, Len(pat)) = pat

\* s.substr(0, s.find(c)): the text before the first c, all of s without one.
before_first(s, c) ==
  IF find(s, <<c>>, 1) = 0 THEN s ELSE SubSeq(s, 1, find(s, <<c>>, 1) - 1)

\* The position of the first character at or after i that is not white space
\* (Len(s) + 1 when there is none): what operator>> skips.
RECURSIVE skip_ws(_, _)
skip_ws(s, i) == IF i <= Len(s) /\ isspace(s[i]) THEN skip_ws(s, i + 1) ELSE i

RECURSIVE word_end(_, _)
word_end(s, i) == IF i <= Len(s) /\ ~isspace(s[i]) THEN word_end(s, i + 1) ELSE i

\* ss >> word, from position i of the stream's text: the word and the position
\* after it.  A failed extraction leaves the word empty.
read_word(s, i) ==
  LET b == skip_ws(s, i)
      e == word_end(s, b)
  IN  [word |-> SubSeq(s, b, e - 1), next |-> e]

\* std::getline(ss, rest) after the extractions that ended at position i.
rest_of_line(s, i) == SubSeq(s, i, Len(s))

first_word(s) == read_word(s, 1).word
second_word(s) == read_word(s, read_word(s, 1).next).word
after_first_word(s) == rest_of_line(s, read_word(s, 1).next)
after_second_word(s) == rest_of_line(s, read_word(s, read_word(s, 1).next).next)

RECURSIVE split_loop(_, _, _, _, _, _, _)
split_loop(s, i, delimiter, current_token, in_quotes, bracket_level, tokens) ==
  IF i > Len(s) THEN Append(tokens, trim(current_token))
  ELSE
    LET c  == s[i]
        q  == IF c = "'" \/ c = "\"" THEN ~in_quotes ELSE in_quotes
        b  == IF c = "<" THEN bracket_level + 1
              ELSE IF c = ">" THEN bracket_level - 1 ELSE bracket_level
    IN  IF c = delimiter /\ ~q /\ b = 0
        THEN split_loop(s, i + 1, delimiter, <<>>, q, b,
                        Append(tokens, trim(current_token)))
        ELSE split_loop(s, i + 1, delimiter, Append(current_token, c), q, b, tokens)

\* Splits a string by a delimiter, not inside quotes or angle brackets.
split_args(s, delimiter) ==
  split_loop(before_first(s, ";"), 1, delimiter, <<>>, FALSE, 0, <<>>)

is_quote_delimited(s) ==
  /\ Len(s) >= 2
  /\ \/ s[1] = "\"" /\ s[Len(s)] = "\""
     \/ s[1] = "'" /\ s[Len(s)] = "'"

is_char_constant(s) == Len(s) = 3 /\ s[1] = "'" /\ s[3] = "'"

(***************************************************************************)
(* Machine integers.  An int is a TLA+ integer; the inputs explored keep   *)
(* every sum and product inside the range of int, where C++ arithmetic and *)
(* integer arithmetic agree.                                               *)
(***************************************************************************)
ToUint16(v) == v % 65536
ToUint8(v) == v % 256

\* C++ integer division truncates toward zero.
cdiv(a, b) ==
  LET q == (IF a < 0 THEN -a ELSE a) \div (IF b < 0 THEN -b ELSE b)
  IN  IF (a < 0) = (b < 0) THEN q ELSE -q

\* &, | and ^ on two's-complement ints, bit by bit from the low end: halving
\* (rounding down) ends at 0 (all bits clear) or at -1 (all bits set).
RECURSIVE int_and(_, _)
int_and(a, b) ==
  IF a = 0 \/ b = 0 THEN 0
  ELSE IF a = -1 THEN b
  ELSE IF b = -1 THEN a
  ELSE (IF a % 2 = 1 /\ b % 2 = 1 THEN 1 ELSE 0) + 2 * int_and(a \div 2, b \div 2)

RECURSIVE int_or(_, _)
int_or(a, b) ==
  IF a = 0 THEN b
  ELSE IF b = 0 THEN a
  ELSE IF a = -1 \/ b = -1 THEN -1
  ELSE (IF a % 2 = 1 \/ b % 2 = 1 THEN 1 ELSE 0) + 2 * int_or(a \div 2, b \div 2)

RECURSIVE int_xor(_, _)
int_xor(a, b) ==
  IF a = 0 THEN b
  ELSE IF b = 0 THEN a
  ELSE IF a = -1 THEN -b - 1
  ELSE IF b = -1 THEN -a - 1
  ELSE (IF (a % 2) # (b % 2) THEN 1 ELSE 0) + 2 * int_xor(a \div 2, b \div 2)

(***************************************************************************)
(* The assembler's state as a record st: the member variables of class     *)
(* Assembler, the outcome of the run (status, error), and the logs kept    *)
(* for the properties: every write to the symbol table (sym_writes), every *)
(* symbol lookup of the expression evaluator with the value it returned    *)
(* (lookups), every ORG executed (org_log), and whether an advance of the  *)
(* location counter wrapped around 16 bits (wrapped).                      *)
(***************************************************************************)
EmptyMap == [k \in {} |-> 0]

Put(m, k, v) == [x \in DOMAIN m \cup {k} |-> IF x = k THEN v ELSE m[x]]

NoError == [line |-> 0, message |-> ""]

\* reset_state: cross_reference_data and if_stack are not among the members
\* it resets.
reset_state(st) ==
  [st EXCEPT !.lineno = 0, !.address = 0, !.source_pass = 1,
             !.assembly_finished = FALSE, !.macro_expansion_counter = 0,
             !.output = <<>>, !.symbol_table = EmptyMap, !.macros = EmptyMap]

\* The state after construction: the constructor calls reset_state.
Constructed ==
  [lineno |-> 0, address |-> 0, source_pass |-> 1, assembly_finished |-> FALSE,
   macro_expansion_counter |-> 0, output |-> <<>>, symbol_table |-> EmptyMap,
   macros |-> EmptyMap, if_stack |-> <<>>, cross_reference_data |-> EmptyMap,
   label |-> <<>>, mnemonic |-> <<>>, operand1 |-> <<>>, operand2 |-> <<>>,
   comment |-> <<>>, status |-> "running", error |-> NoError,
   sym_writes |-> <<>>, lookups |-> <<>>, org_log |-> <<>>, wrapped |-> FALSE]

Running(st) == st.status = "running"

\* report_error prints "line <line_num + 1>: <message>" and exits with code 1.
report_error(st, message, line_num) ==
  IF Running(st)
  THEN [st EXCEPT !.status = "error",
                  !.error = [line |-> line_num + 1, message |-> message]]
  ELSE st

\* The ways a run ends that are not report_error: an exception no handler of
\* the assembler catches (stoi), a loop that never ends, a division by zero.
Abort(st, how, what) ==
  IF Running(st)
  THEN [st EXCEPT !.status = how,
                  !.error = [line |-> st.lineno + 1, message |-> what]]
  ELSE st

(***************************************************************************)
(* get_number: std::stoi and std::stoul.                                   *)
(***************************************************************************)
\* The value of the character at position i as a digit (10..35 for letters),
\* -1 when it is no digit or the text has ended.
digit_value(s, i) ==
  IF i <= Len(s) THEN IndexOf(RadixDigits, tolower(s[i])) - 1 ELSE -1

\* The longest prefix of s from position i made of digits of the base:
\* n digits, their value, and big when the value is above INT_MAX.
RECURSIVE scan_digits(_, _, _, _, _, _)
scan_digits(s, i, base, n, val, big) ==
  LET scan(d) ==
        IF d < 0 \/ d >= base THEN [n |-> n, val |-> val, big |-> big]
        ELSE IF big \/ val > (2147483647 - d) \div base
             THEN scan_digits(s, i + 1, base, n + 1, val, TRUE)
             ELSE scan_digits(s, i + 1, base, n + 1, val * base + d, FALSE)
  IN  scan(digit_value(s, i))

\* std::stoi(input, nullptr, 10) of a text that starts with '-': an input
\* without digits or out of the range of int throws, and nothing catches it.
stoi_negative(st, input) ==
  LET converted(r) ==
        IF r.n = 0
        THEN [val |-> 0, st |-> Abort(st, "exception", "std::invalid_argument")]
        ELSE IF r.big
        THEN [val |-> 0, st |-> Abort(st, "exception", "std::out_of_range")]
        ELSE [val |-> -r.val, st |-> st]
  IN  converted(scan_digits(input, 2, 10, 0, 0, FALSE))

\* Where the digits of std::stoul's input start: after an optional sign and,
\* for base 16, an optional 0x that a hex digit follows.
digits_start(input, base) ==
  LET start(b0) ==
        IF /\ base = 16 /\ Len(input) >= b0 + 2
           /\ input[b0] = "0" /\ tolower(input[b0 + 1]) = "x"
           /\ IndexOf(RadixDigits, tolower(input[b0 + 2])) \in 1..16
        THEN b0 + 2 ELSE b0
  IN  start(IF Len(input) > 0 /\ input[1] \in {"+", "-"} THEN 2 ELSE 1)

\* std::stoul(input, nullptr, base): an optional sign, for base 16 an optional
\* 0x, then the longest run of digits of the base; what follows is ignored.
\* Without a digit it throws, and get_number reports the error.  A value above
\* INT_MAX is not representable here: the run is marked out_of_model.
stoul(st, input, base) ==
  LET converted(r) ==
        IF r.n = 0
        THEN [val |-> 0,
              st  |-> report_error(st, "invalid number format: " \o Str(input),
                                   st.lineno)]
        ELSE IF r.big \/ (Len(input) > 0 /\ input[1] = "-" /\ r.val # 0)
        THEN [val |-> 0, st |-> Abort(st, "out_of_model", "literal above INT_MAX")]
        ELSE [val |-> r.val, st |-> st]
  IN  converted(scan_digits(input, digits_start(input, base), base, 0, 0, FALSE))

\* A number_base that does not know the suffix b (not the code's).
number_base_without_binary(last) ==
  IF last = "h" THEN 16 ELSE IF last = "q" THEN 8 ELSE 10

\* The base that the last character of a number selects.
number_base(last) ==
  IF last = "h" THEN 16 ELSE IF last = "q" THEN 8 ELSE IF last = "b" THEN 2 ELSE 10

\* get_number after input = trim(str): a leading '-' goes to std::stoi, a
\* trailing h, q or b is removed and selects the base of std::stoul.
convert_number(st, input) ==
  IF Len(input) = 0 THEN [val |-> 0, st |-> st]
  ELSE IF input[1] = "-" THEN stoi_negative(st, input)
  ELSE stoul(st,
             IF number_base(tolower(input[Len(input)])) = 10 THEN input
             ELSE SubSeq(input, 1, Len(input) - 1),
             number_base(tolower(input[Len(input)])))

\* Converts a string (hex, decimal, etc.) to a number.
get_number(st, str) == convert_number(st, trim(str))

(***************************************************************************)
(* The expression evaluator.  it is the position of the iterator in the    *)
(* text s; every function returns the value, the iterator and the state.   *)
(***************************************************************************)
RECURSIVE take_while_ident(_, _)
take_while_ident(s, i) ==
  IF i <= Len(s) /\ (isalnum(s[i]) \/ s[i] = "$" \/ s[i] = "_")
  THEN take_while_ident(s, i + 1) ELSE i

RECURSIVE take_while_alnum(_, _)
take_while_alnum(s, i) ==
  IF i <= Len(s) /\ isalnum(s[i]) THEN take_while_alnum(s, i + 1) ELSE i

\* The position after the token that starts at position b.
token_end(s, b) ==
  IF b > Len(s) THEN b
  ELSE IF isalpha(s[b]) \/ s[b] = "$" \/ s[b] = "_" THEN take_while_ident(s, b)
  ELSE IF isdigit(s[b]) \/ (s[b] = "-" /\ b + 1 <= Len(s) /\ isdigit(s[b + 1]))
       THEN take_while_alnum(s, b + 1)
  ELSE b + 1

get_token(s, it) ==
  LET token(b, e) == [token |-> SubSeq(s, b, e - 1), it |-> e]
      from(b) == token(b, token_end(s, b))
  IN  from(skip_ws(s, it))

Logged(st, kind, name, value) ==
  [st EXCEPT !.lookups = Append(@, [pass |-> st.source_pass, kind |-> kind, name |-> name,
                                    found |-> name \in DOMAIN st.symbol_table,
                                    value |-> value])]

\* A failed lookup that would give 0 in pass 2 as well (not the code's).
undefined_symbol_silent(st, kind, name, message) ==
  [val |-> 0, st |-> Logged(st, kind, name, 0)]

\* A symbol lookup that fails: 0 in pass 1, a fatal error in pass 2.
undefined_symbol(st, kind, name, message) ==
  [val |-> 0,
   st  |-> IF st.source_pass = 2
           THEN report_error(Logged(st, kind, name, 0), message, st.lineno)
           ELSE Logged(st, kind, name, 0)]

\* LOW label: the low byte of the label's value.
low_operator(st, label) ==
  IF label \in DOMAIN st.symbol_table
  THEN [val |-> st.symbol_table[label] % 256,
        st  |-> Logged(st, "low", label, st.symbol_table[label] % 256)]
  ELSE undefined_symbol(st, "low", label, "undefined label in LOW operator: " \o label)

\* HIGH label: the high byte of the label's value.
high_operator(st, label) ==
  IF label \in DOMAIN st.symbol_table
  THEN [val |-> (st.symbol_table[label] \div 256) % 256,
        st  |-> Logged(st, "high", label, (st.symbol_table[label] \div 256) % 256)]
  ELSE undefined_symbol(st, "high", label, "undefined label in HIGH operator: " \o label)

\* A term that is a symbol: its value, and a use in the cross reference.
symbol_value(st, name) ==
  IF name \in DOMAIN st.symbol_table
  THEN [val |-> st.symbol_table[name],
        st  |-> [Logged(st, "symbol", name, st.symbol_table[name]) EXCEPT
                   !.cross_reference_data =
                      Put(@, name,
                          (IF name \in DOMAIN @ THEN @[name] ELSE <<>>)
                            \o <<st.lineno + 1>>)]]
  ELSE undefined_symbol(st, "symbol", name, "undefined label in expression: " \o name)

\* evaluate_single_term after term = trim(term_str): the character constant is
\* read from term, everything else from its lower-case form.
lowered_term(st, term, lower) ==
  IF Len(term) = 0 THEN [val |-> 0, st |-> st]
  ELSE IF is_char_constant(term) THEN [val |-> char_code(term[2]), st |-> st]
  ELSE IF lower = <<"$">> THEN [val |-> st.address, st |-> st]
  ELSE IF starts_with(lower, <<"l","o","w"," ">>)
       THEN low_operator(st, Str(trim(SubSeq(lower, 5, Len(lower)))))
  ELSE IF starts_with(lower, <<"h","i","g","h"," ">>)
       THEN high_operator(st, Str(trim(SubSeq(lower, 6, Len(lower)))))
  ELSE IF isdigit(lower[1]) \/ (Len(lower) > 1 /\ lower[1] = "-")
       THEN get_number(st, lower)
  ELSE symbol_value(st, Str(lower))

evaluate_single_term(st, term_str) ==
  lowered_term(st, trim(term_str), to_lower(trim(term_str)))

RECURSIVE evaluate_expression_it(_, _, _)
RECURSIVE parse_expr_term(_, _, _)
RECURSIVE parse_expr_factor(_, _, _)
RECURSIVE term_loop(_, _, _, _)
RECURSIVE expression_loop(_, _, _, _)

\* parse_expr_factor after its first get_token: t is the token and the
\* position after it.
factor_of_token(st, s, t) ==
  LET closed(r, c) ==
        [val |-> r.val, it |-> c.it,
         st  |-> IF Str(c.token) # ")"
                 THEN report_error(r.st, "mismatched parentheses in expression",
                                   r.st.lineno)
                 ELSE r.st]
      parenthesised(r) == closed(r, get_token(s, r.it))
      single(r) == [val |-> r.val, it |-> t.it, st |-> r.st]
  IN  IF Str(t.token) = "("
      THEN parenthesised(evaluate_expression_it(st, s, t.it))
      ELSE single(evaluate_single_term(st, t.token))

parse_expr_factor(st, s, it) == factor_of_token(st, s, get_token(s, it))

\* One iteration of the loop of parse_expr_term: op is the next token in
\* lower case, rhs the factor parsed after it.
term_step(st, s, it, result, op, rhs) ==
  IF ~Running(st) \/ op \notin {"*", "/", "and"}
  THEN [val |-> result, it |-> it, st |-> st]
  ELSE IF ~Running(rhs.st) THEN [val |-> result, it |-> rhs.it, st |-> rhs.st]
  ELSE IF op = "*" THEN term_loop(rhs.st, s, rhs.it, result * rhs.val)
  ELSE IF op = "and" THEN term_loop(rhs.st, s, rhs.it, int_and(result, rhs.val))
  ELSE IF rhs.val = 0
       THEN [val |-> 0, it |-> rhs.it,
             st  |-> Abort(rhs.st, "crash", "integer division by zero")]
  ELSE term_loop(rhs.st, s, rhs.it, cdiv(result, rhs.val))

\* The while (true) loop of parse_expr_term, entered with the value so far.
term_loop(st, s, it, result) ==
  term_step(st, s, it, result, Str(to_lower(get_token(s, it).token)),
            parse_expr_factor(st, s, get_token(s, it).it))

\* The loop of parse_expr_term entered with its first factor f.
term_from(s, f) == term_loop(f.st, s, f.it, f.val)

\* A term that is a single factor: * / and would bind no tighter than + -
\* or xor (not the code's).
parse_expr_term_flat(st, s, it) == parse_expr_factor(st, s, it)

parse_expr_term(st, s, it) == term_from(s, parse_expr_factor(st, s, it))

\* One iteration of the loop of evaluate_expression: op is the next token in
\* lower case, rhs the term parsed after it.
expression_step(st, s, it, result, op, rhs) ==
  IF ~Running(st) \/ op \notin {"+", "-", "or", "xor"}
  THEN [val |-> result, it |-> it, st |-> st]
  ELSE IF ~Running(rhs.st) THEN [val |-> result, it |-> rhs.it, st |-> rhs.st]
  ELSE IF op = "+" THEN expression_loop(rhs.st, s, rhs.it, result + rhs.val)
  ELSE IF op = "-" THEN expression_loop(rhs.st, s, rhs.it, result - rhs.val)
  ELSE IF op = "or" THEN expression_loop(rhs.st, s, rhs.it, int_or(result, rhs.val))
  ELSE expression_loop(rhs.st, s, rhs.it, int_xor(result, rhs.val))

\* The while (true) loop of evaluate_expression, entered with the value so far.
expression_loop(st, s, it, result) ==
  expression_step(st, s, it, result, Str(to_lower(get_token(s, it).token)),
                  parse_expr_term(st, s, get_token(s, it).it))

\* The loop of evaluate_expression entered with its first term t.
expression_from(s, t) == expression_loop(t.st, s, t.it, t.val)

evaluate_expression_it(st, s, it) == expression_from(s, parse_expr_term(st, s, it))

\* The value and the state of an evaluation that ended at some position.
value_of(r) == [val |-> r.val, st |-> r.st]

evaluate_expression(st, expr) == value_of(evaluate_expression_it(st, expr, 1))

(***************************************************************************)
(* parse: breaks a line into label, mnemonic and operands.                 *)
(***************************************************************************)
RECURSIVE replace_tabs(_)
replace_tabs(s) ==
  IF Len(s) = 0 THEN <<>>
  ELSE <<IF s[1] = "\t" THEN " " ELSE s[1]>> \o replace_tabs(Tail(s))

\* The position of the first comma outside quotes and angle brackets, or 0.
RECURSIVE comma_split_pos(_, _, _, _)
comma_split_pos(s, i, in_quotes, bracket_level) ==
  LET split(c, q, b) ==
        IF c = "," /\ ~q /\ b = 0 THEN i ELSE comma_split_pos(s, i + 1, q, b)
  IN  IF i > Len(s) THEN 0
      ELSE split(s[i],
                 IF s[i] = "'" \/ s[i] = "\"" THEN ~in_quotes ELSE in_quotes,
                 IF s[i] = "<" THEN bracket_level + 1
                 ELSE IF s[i] = ">" THEN bracket_level - 1 ELSE bracket_level)

\* parse from the tab-free line on: the comment is cut off, then either the
\* EQU form (label EQU value) or label: mnemonic operand1, operand2; a line
\* whose only word stands where the operands do has it as its mnemonic.
parse_fields(st, tabless, comment_pos) ==
  LET fields(cleared, label, mnemonic, operand1, operand2) ==
        [cleared EXCEPT
           !.label    = to_lower(label),
           !.mnemonic = to_lower(IF Len(mnemonic) = 0 /\ Len(operand1) # 0
                                 THEN operand1 ELSE mnemonic),
           !.operand1 = IF Len(mnemonic) = 0 /\ Len(operand1) # 0
                        THEN <<>> ELSE operand1,
           !.operand2 = operand2]
      operands_of(cleared, label, mnemonic, operands, comma) ==
        fields(cleared, label, mnemonic,
               IF comma = 0 THEN operands ELSE trim(SubSeq(operands, 1, comma - 1)),
               IF comma = 0 THEN <<>>
               ELSE trim(SubSeq(operands, comma + 1, Len(operands))))
      instruction(cleared, label, mnemonic, operands) ==
        operands_of(cleared, label, mnemonic, operands,
                    comma_split_pos(operands, 1, FALSE, 0))
      statement(cleared, label, rest) ==
        instruction(cleared, label, first_word(rest), trim(after_first_word(rest)))
      labelled(cleared, line, label_pos) ==
        statement(cleared,
                  IF label_pos = 0 THEN <<>> ELSE trim(SubSeq(line, 1, label_pos - 1)),
                  IF label_pos = 0 THEN line
                  ELSE trim(SubSeq(line, label_pos + 1, Len(line))))
      equate(cleared, line, equ_pos) ==
        [cleared EXCEPT
           !.label    = to_lower(trim(SubSeq(line, 1, equ_pos - 1))),
           !.mnemonic = <<"e","q","u">>,
           !.operand1 = trim(SubSeq(line, equ_pos + 5, Len(line)))]
      fielded(cleared, line, equ_pos) ==
        IF Len(line) = 0 THEN cleared
        ELSE IF equ_pos # 0 THEN equate(cleared, line, equ_pos)
        ELSE labelled(cleared, line, find(line, <<":">>, 1))
      commented(comment, line) ==
        fielded([st EXCEPT !.label = <<>>, !.mnemonic = <<>>, !.operand1 = <<>>,
                           !.operand2 = <<>>, !.comment = comment],
                line, find(to_lower(line), <<" ","e","q","u"," ">>, 1))
  IN  commented(IF comment_pos = 0 THEN <<>>
                ELSE trim(SubSeq(tabless, comment_pos + 1, Len(tabless))),
                trim(IF comment_pos = 0 THEN tabless
                     ELSE SubSeq(tabless, 1, comment_pos - 1)))

parse(st, raw_line) ==
  parse_fields(st, replace_tabs(raw_line), find(replace_tabs(raw_line), <<";">>, 1))

(***************************************************************************)
(* Pass logic.                                                             *)
(***************************************************************************)
\* An add_label without the duplicate check (not the code's).
add_label_overwriting(st) ==
  LET added(key) ==
        [st EXCEPT
           !.symbol_table = Put(@, key, st.address),
           !.sym_writes = Append(@, [name |-> key, value |-> st.address,
                                     pass |-> st.source_pass, line |-> st.lineno + 1])]
  IN  IF ~Running(st) THEN st ELSE added(Str(st.label))

\* An add_label that records the definition under the 0-indexed line (not the
\* code's).
add_label_zero_indexed(st) ==
  LET added(key) ==
        IF key \in DOMAIN st.symbol_table
        THEN report_error(st, "duplicate label: \"" \o key \o "\"", st.lineno)
        ELSE [st EXCEPT
                !.symbol_table = Put(@, key, st.address),
                !.sym_writes = Append(@, [name |-> key, value |-> st.address,
                                          pass |-> st.source_pass,
                                          line |-> st.lineno + 1]),
                !.cross_reference_data =
                   Put(@, key, (IF key \in DOMAIN @ THEN @[key] ELSE <<>>)
                                 \o <<-st.lineno>>)]
  IN  IF ~Running(st) THEN st ELSE added(Str(st.label))

\* Adds a label and its current address to the symbol table.
add_label(st) ==
  LET added(key) ==
        IF key \in DOMAIN st.symbol_table
        THEN report_error(st, "duplicate label: \"" \o key \o "\"", st.lineno)
        ELSE [st EXCEPT
                !.symbol_table = Put(@, key, st.address),
                !.sym_writes = Append(@, [name |-> key, value |-> st.address,
                                          pass |-> st.source_pass,
                                          line |-> st.lineno + 1]),
                !.cross_reference_data =
                   Put(@, key, (IF key \in DOMAIN @ THEN @[key] ELSE <<>>)
                                 \o <<-(st.lineno + 1)>>)]
  IN  IF ~Running(st) THEN st ELSE added(Str(st.label))

\* A pass_action step that adds the label of the line in pass 2 as well (not
\* the code's).
label_or_bytes_in_both_passes(st, output_bytes, should_add_label) ==
  IF Len(st.label) # 0 /\ should_add_label
  THEN add_label(IF st.source_pass = 1 THEN st
                 ELSE [st EXCEPT !.output = @ \o output_bytes])
  ELSE IF st.source_pass = 1 THEN st
  ELSE [st EXCEPT !.output = @ \o output_bytes]

\* What pass_action does before it advances the location counter: pass 1
\* adds the label, pass 2 writes the bytes.
label_or_bytes(st, output_bytes, should_add_label) ==
  IF st.source_pass = 1
  THEN IF Len(st.label) # 0 /\ should_add_label THEN add_label(st) ELSE st
  ELSE [st EXCEPT !.output = @ \o output_bytes]

\* A pass_action that advances the location counter by the bytes it is
\* handed instead of the size of the instruction (not the code's).
pass_action_counting_bytes(st, instruction_size, output_bytes, should_add_label) ==
  LET advanced(s1) ==
        IF ~Running(st) THEN st
        ELSE IF ~Running(s1) THEN s1
        ELSE [s1 EXCEPT !.address = ToUint16(@ + Len(output_bytes))]
  IN  advanced(label_or_bytes(st, output_bytes, should_add_label))

\* Handles the action for each line based on the current pass.
pass_action(st, instruction_size, output_bytes, should_add_label) ==
  LET advanced(s1) ==
        IF ~Running(st) THEN st
        ELSE IF ~Running(s1) THEN s1
        ELSE [s1 EXCEPT !.address = ToUint16(@ + instruction_size),
                        !.wrapped = @ \/ s1.address + instruction_size > 65535]
  IN  advanced(label_or_bytes(st, output_bytes, should_add_label))

check_operands(st, valid, mnemonic_name) ==
  IF valid THEN st
  ELSE report_error(st, "invalid operands for mnemonic \"" \o mnemonic_name \o "\"",
                    st.lineno)

register_offset8(st, raw_register) ==
  LET offset(r, n) ==
        IF n # 0 THEN [val |-> n - 1, st |-> st]
        ELSE [val |-> -1,
              st  |-> report_error(st, "invalid 8-bit register \"" \o r \o "\"",
                                   st.lineno)]
      register(r) == offset(r, IndexOf(<<"b","c","d","e","h","l","m","a">>, r))
  IN  register(Str(to_lower(raw_register)))

\* A register_offset16 that takes psw and sp with every mnemonic (not the
\* code's).
register_offset16_unchecked(st) ==
  LET offset(op, mn) ==
        IF op = "b" \/ op = "bc" THEN [val |-> 0, st |-> st]
        ELSE IF op = "d" \/ op = "de" THEN [val |-> 16, st |-> st]
        ELSE IF op = "h" \/ op = "hl" THEN [val |-> 32, st |-> st]
        ELSE IF op = "psw" \/ op = "sp" THEN [val |-> 48, st |-> st]
        ELSE [val |-> -1,
              st  |-> report_error(st, "invalid 16-bit register \"" \o Str(st.operand1)
                                         \o "\" for instruction \"" \o mn \o "\"",
                                   st.lineno)]
  IN  offset(Str(to_lower(st.operand1)), Str(st.mnemonic))

register_offset16(st) ==
  LET offset(op, mn, stack) ==
        IF op = "b" \/ op = "bc" THEN [val |-> 0, st |-> st]
        ELSE IF op = "d" \/ op = "de" THEN [val |-> 16, st |-> st]
        ELSE IF op = "h" \/ op = "hl" THEN [val |-> 32, st |-> st]
        ELSE IF op = "psw" /\ stack THEN [val |-> 48, st |-> st]
        ELSE IF op = "psw"
        THEN [val |-> -1,
              st  |-> report_error(st, "\"psw\" cannot be used with instruction \""
                                         \o mn \o "\"", st.lineno)]
        ELSE IF op = "sp" /\ ~stack THEN [val |-> 48, st |-> st]
        ELSE IF op = "sp"
        THEN [val |-> -1,
              st  |-> report_error(st, "\"sp\" cannot be used with instruction \""
                                         \o mn \o "\"", st.lineno)]
        ELSE [val |-> -1,
              st  |-> report_error(st, "invalid 16-bit register \"" \o Str(st.operand1)
                                         \o "\" for instruction \"" \o mn \o "\"",
                                   st.lineno)]
      register(op, mn) == offset(op, mn, mn = "push" \/ mn = "pop")
  IN  register(Str(to_lower(st.operand1)), Str(st.mnemonic))

\* A low byte that saturates at 255 instead of truncating (not the code's).
low_byte_saturated(number) == IF number > 255 THEN 255 ELSE number % 256

\* number & 0xFF, then (number >> 8) & 0xFF.
low_byte(number) == number % 256
high_byte(number) == (number \div 256) % 256

\* The operand an immediate instruction reads: the second of lxi and mvi,
\* the first of the others.
immediate_text(st) ==
  IF Str(st.mnemonic) = "lxi" \/ Str(st.mnemonic) = "mvi"
  THEN st.operand2 ELSE st.operand1

\* The type parameter is 8 (IMMEDIATE8) or 16 (IMMEDIATE16).
immediate_operand(st, operand_type) ==
  LET emitted(r) ==
        IF ~Running(st) \/ st.source_pass # 2 THEN st
        ELSE IF ~Running(r.st) THEN r.st
        ELSE IF operand_type = 8
        THEN [r.st EXCEPT !.output = Append(@, low_byte(r.val))]
        ELSE [r.st EXCEPT !.output = @ \o <<low_byte(r.val), high_byte(r.val)>>]
  IN  emitted(evaluate_expression(st, immediate_text(st)))

\* An address16 that emits the high byte first (not the code's).
address16_high_first(st, operand) ==
  LET emitted(r, number) ==
        IF ~Running(st) \/ st.source_pass # 2 THEN st
        ELSE IF ~Running(r.st) THEN r.st
        ELSE [r.st EXCEPT !.output = @ \o <<high_byte(number), low_byte(number)>>]
      evaluated(r) == emitted(r, ToUint16(r.val))
  IN  evaluated(evaluate_expression(st, operand))

address16(st, operand) ==
  LET emitted(r, number) ==
        IF ~Running(st) \/ st.source_pass # 2 THEN st
        ELSE IF ~Running(r.st) THEN r.st
        ELSE [r.st EXCEPT !.output = @ \o <<low_byte(number), high_byte(number)>>]
      evaluated(r) == emitted(r, ToUint16(r.val))
  IN  evaluated(evaluate_expression(st, operand))

(***************************************************************************)
(* Instruction and directive handlers.  The handlers of one shape differ   *)
(* only in the name and the opcode, which the tables below give (opcodes   *)
(* in decimal, as in the 8080 encoding the handlers spell in hex).         *)
(***************************************************************************)
\* nop, rlc, ...: no operand, one fixed byte.
NoOperandOps ==
  [nop |-> 0, rlc |-> 7, rrc |-> 15, ral |-> 23, rar |-> 31, daa |-> 39,
   cma |-> 47, stc |-> 55, cmc |-> 63, hlt |-> 118, rnz |-> 192, rz |-> 200,
   ret |-> 201, rnc |-> 208, rc |-> 216, rpo |-> 224, xthl |-> 227, rpe |-> 232,
   pchl |-> 233, xchg |-> 235, rp |-> 240, di |-> 243, rm |-> 248, sphl |-> 249,
   ei |-> 251, sim |-> 48, rim |-> 32]

\* shld, sta, jmp, call, ...: the opcode, then a 16-bit address.
Address16Ops ==
  [shld |-> 34, lhld |-> 42, sta |-> 50, lda |-> 58, jnz |-> 194, jmp |-> 195,
   cnz |-> 196, jz |-> 202, cz |-> 204, call |-> 205, jnc |-> 210, cnc |-> 212,
   jc |-> 218, cc |-> 220, jpo |-> 226, cpo |-> 228, jpe |-> 234, cpe |-> 236,
   jp |-> 242, cp |-> 244, jm |-> 250, cm |-> 252]

\* adi, cpi, in, out, ...: the opcode, then an 8-bit immediate.
Immediate8Ops ==
  ("adi" :> 198) @@ ("aci" :> 206) @@ ("out" :> 211) @@ ("sui" :> 214) @@
  ("in" :> 219) @@ ("sbi" :> 222) @@ ("ani" :> 230) @@ ("xri" :> 238) @@
  ("ori" :> 246) @@ ("cpi" :> 254)

\* add, cmp, ...: base opcode + 8-bit register.
Register8Ops ==
  [add |-> 128, adc |-> 136, sub |-> 144, sbb |-> 152, ana |-> 160, xra |-> 168,
   ora |-> 176, cmp |-> 184]

\* inr, dcr: base opcode + (8-bit register << 3).
Register8ShiftedOps == [inr |-> 4, dcr |-> 5]

\* inx, dad, dcx, pop, push: base opcode + register pair.
Register16Ops == [inx |-> 3, dad |-> 9, dcx |-> 11, pop |-> 193, push |-> 197]

\* ldax, stax: the opcodes for operand b and for operand d.
IndirectOps == [stax |-> [b |-> 2, d |-> 18], ldax |-> [b |-> 10, d |-> 26]]

no_operands(st) == Len(st.operand1) = 0 /\ Len(st.operand2) = 0
one_operand(st) == Len(st.operand1) # 0 /\ Len(st.operand2) = 0
two_operands(st) == Len(st.operand1) # 0 /\ Len(st.operand2) # 0

no_operand_op(st, mn) ==
  pass_action(check_operands(st, no_operands(st), mn), 1, <<NoOperandOps[mn]>>, TRUE)

address16_op(st, mn) ==
  address16(pass_action(check_operands(st, one_operand(st), mn),
                        3, <<Address16Ops[mn]>>, TRUE),
            st.operand1)

immediate8_op(st, mn) ==
  immediate_operand(pass_action(check_operands(st, one_operand(st), mn),
                                2, <<Immediate8Ops[mn]>>, TRUE), 8)

\* The one byte of an instruction whose opcode a register offset r completes.
register_op(r, opcode) == pass_action(r.st, 1, <<ToUint8(opcode)>>, TRUE)

register8_op(st, mn) ==
  LET encoded(r) == register_op(r, Register8Ops[mn] + r.val)
  IN  encoded(register_offset8(check_operands(st, one_operand(st), mn), st.operand1))

register8_shifted_op(st, mn) ==
  LET encoded(r) == register_op(r, Register8ShiftedOps[mn] + r.val * 8)
  IN  encoded(register_offset8(check_operands(st, one_operand(st), mn), st.operand1))

register16_op(st, mn) ==
  LET encoded(r) == register_op(r, Register16Ops[mn] + r.val)
  IN  encoded(register_offset16(check_operands(st, one_operand(st), mn)))

indirect_op(st, mn) ==
  LET encoded(c, op) ==
        IF op = "b" THEN pass_action(c, 1, <<IndirectOps[mn].b>>, TRUE)
        ELSE IF op = "d" THEN pass_action(c, 1, <<IndirectOps[mn].d>>, TRUE)
        ELSE report_error(c, "\"" \o mn \o "\" only takes \"b\" or \"d\"", st.lineno)
  IN  encoded(check_operands(st, one_operand(st), mn), Str(to_lower(st.operand1)))

\* lxi and mvi after the register offset r: the opcode, then the immediate.
register_immediate(r, size, opcode, operand_type) ==
  immediate_operand(pass_action(r.st, size, <<ToUint8(opcode)>>, TRUE), operand_type)

lxi(st) ==
  LET encoded(r) == 1 + r.val
      loaded(r) == register_immediate(r, 3, encoded(r), 16)
  IN  loaded(register_offset16(check_operands(st, two_operands(st), "lxi")))

mvi(st) ==
  LET encoded(r) == 6 + r.val * 8
      loaded(r) == register_immediate(r, 2, encoded(r), 8)
  IN  loaded(register_offset8(check_operands(st, two_operands(st), "mvi"),
                              st.operand1))

mov(st) ==
  LET encoded(dst, src) == register_op(src, 64 + dst.val * 8 + src.val)
      moved(dst) == encoded(dst, register_offset8(dst.st, st.operand2))
  IN  moved(register_offset8(check_operands(st, two_operands(st), "mov"),
                             st.operand1))

rst(st) ==
  LET restart(n) ==
        IF ~Running(n.st) THEN n.st
        ELSE IF n.val >= 0 /\ n.val <= 7
        THEN pass_action(n.st, 1, <<199 + n.val * 8>>, TRUE)
        ELSE report_error(n.st, "invalid restart vector", st.lineno)
  IN  restart(get_number(check_operands(st, one_operand(st), "rst"), st.operand1))

all_operands(st) ==
  IF Len(st.operand2) # 0 THEN st.operand1 \o <<",">> \o st.operand2 ELSE st.operand1

\* The byte of an expression operand of DB, written in pass 2 after the
\* counter has advanced (a is the state after pass_action).
db_value(a, text) ==
  LET emitted(r) ==
        IF ~Running(a) \/ a.source_pass # 2 THEN a
        ELSE IF ~Running(r.st) THEN r.st
        ELSE [r.st EXCEPT !.output = Append(@, ToUint8(r.val))]
  IN  emitted(evaluate_expression(a, text))

\* A db_byte that adds the label of the line with every expression operand
\* (not the code's).
db_byte_relabelling(st, text, should_add_label) ==
  db_value(pass_action(st, 1, <<>>, Len(st.label) # 0), text)

\* One expression operand of DB (also a byte of a <...> group): the counter
\* advances first, then pass 2 evaluates the operand and emits the byte.
db_byte(st, text, should_add_label) ==
  db_value(pass_action(st, 1, <<>>, Len(st.label) # 0 /\ should_add_label), text)

RECURSIVE db_group(_, _, _, _)
db_group(st, byte_args, k, flag) ==
  IF k > Len(byte_args) \/ ~Running(st) THEN st
  ELSE db_group(db_byte(st, byte_args[k], flag), byte_args, k + 1, FALSE)

RECURSIVE char_codes(_)
char_codes(s) == IF Len(s) = 0 THEN <<>> ELSE <<char_code(s[1])>> \o char_codes(Tail(s))

\* A quoted string or a character constant of DB: the counter advances by
\* the number of characters, pass 2 writes their codes.
db_text(a, codes) ==
  IF Running(a) /\ a.source_pass = 2 THEN [a EXCEPT !.output = @ \o codes] ELSE a

\* One argument of DB after temp_arg = trim(arg).
db_trimmed(st, temp_arg, flag) ==
  IF Len(temp_arg) > 2 /\ temp_arg[1] = "<" /\ temp_arg[Len(temp_arg)] = ">"
  THEN db_group(st, split_args(SubSeq(temp_arg, 2, Len(temp_arg) - 1), ","), 1, flag)
  ELSE IF is_quote_delimited(temp_arg)
  THEN db_text(pass_action(st, Len(temp_arg) - 2, <<>>, Len(st.label) # 0 /\ flag),
               char_codes(SubSeq(temp_arg, 2, Len(temp_arg) - 1)))
  ELSE IF is_char_constant(temp_arg)
  THEN db_text(pass_action(st, 1, <<>>, Len(st.label) # 0 /\ flag),
               <<char_code(temp_arg[2])>>)
  ELSE db_byte(st, temp_arg, flag)

db_argument(st, arg, flag) == db_trimmed(st, trim(arg), flag)

RECURSIVE db_loop(_, _, _, _)
db_loop(st, arguments, k, flag) ==
  IF k > Len(arguments) \/ ~Running(st) THEN st
  ELSE db_loop(db_argument(st, arguments[k], flag), arguments, k + 1, FALSE)

db(st) ==
  db_loop(check_operands(st, Len(all_operands(st)) # 0, "db"),
          split_args(all_operands(st), ","), 1, TRUE)

RECURSIVE dw_loop(_, _, _)
dw_loop(st, arguments, k) ==
  IF k > Len(arguments) \/ ~Running(st) THEN st
  ELSE dw_loop(address16(pass_action(st, 2, <<>>, TRUE), trim(arguments[k])),
               arguments, k + 1)

dw(st) ==
  dw_loop(check_operands(st, Len(all_operands(st)) # 0, "dw"),
          split_args(all_operands(st), ","), 1)

\* A ds that advances the location counter and writes no fill bytes (not the
\* code's).
ds_reserve_unfilled(size, fill) == pass_action(fill.st, size.val, <<>>, TRUE)

\* ds after the size and the fill value: pass 2 writes the fill bytes, then
\* the counter advances by the size.
ds_reserve(size, fill) ==
  pass_action(IF Running(fill.st) /\ fill.st.source_pass = 2
              THEN [fill.st EXCEPT
                      !.output = @ \o [i \in 1..size.val |-> ToUint8(fill.val)]]
              ELSE fill.st,
              size.val, <<>>, TRUE)

\* ds after the size: neg is the state after the check of its sign.
ds_fill(st, size, neg) ==
  ds_reserve(size,
             IF Len(st.operand2) # 0 THEN evaluate_expression(neg, st.operand2)
             ELSE [val |-> 0, st |-> neg])

ds_size(st, size) ==
  ds_fill(st, size,
          IF size.val < 0
          THEN report_error(size.st, "DS size cannot be negative", st.lineno)
          ELSE size.st)

ds(st) ==
  ds_size(st, evaluate_expression(check_operands(st, Len(st.operand1) # 0, "ds"),
                                  st.operand1))

end(st) ==
  LET ended(c) == IF Running(c) THEN [c EXCEPT !.assembly_finished = TRUE] ELSE c
  IN  ended(check_operands(st, Len(st.label) = 0 /\ no_operands(st), "end"))

equ(st) ==
  LET defined(r, key, value16) ==
        IF ~Running(r.st) \/ r.st.source_pass # 1 THEN r.st
        ELSE IF key \in DOMAIN r.st.symbol_table
        THEN report_error(r.st, "duplicate label: \"" \o key \o "\"", st.lineno)
        ELSE [r.st EXCEPT
                !.symbol_table = Put(@, key, value16),
                !.sym_writes = Append(@, [name |-> key, value |-> value16,
                                          pass |-> st.source_pass,
                                          line |-> st.lineno + 1])]
      evaluated(r) == defined(r, Str(st.label), ToUint16(r.val))
  IN  evaluated(evaluate_expression(
                  check_operands(IF Len(st.label) = 0
                                 THEN report_error(st, "missing 'equ' label", st.lineno)
                                 ELSE st,
                                 one_operand(st), "equ"),
                  st.operand1))

org_operands(st) ==
  check_operands(st, Len(st.operand1) # 0 /\ Len(st.label) = 0
                     /\ Len(st.operand2) = 0, "org")

\* An ORG that sets the location counter and pads nothing (not the code's).
org_without_padding(st) ==
  LET moved(r, new_address) ==
        IF ~Running(r.st) THEN r.st
        ELSE [r.st EXCEPT !.address = new_address,
                          !.org_log = Append(@, [pass |-> st.source_pass,
                                                 line |-> st.lineno + 1,
                                                 from |-> r.st.address,
                                                 to |-> new_address])]
      evaluated(r) == moved(r, ToUint16(r.val))
  IN  evaluated(evaluate_expression(org_operands(st), st.operand1))

org(st) ==
  LET padded(r, new_address) ==
        IF r.st.source_pass = 2 /\ new_address > r.st.address
        THEN [r.st EXCEPT
                !.output = @ \o [i \in 1..(new_address - r.st.address) |-> 0]]
        ELSE r.st
      moved(r, new_address) ==
        IF ~Running(r.st) THEN r.st
        ELSE [padded(r, new_address) EXCEPT
                !.address = new_address,
                !.org_log = Append(@, [pass |-> st.source_pass,
                                       line |-> st.lineno + 1,
                                       from |-> r.st.address,
                                       to |-> new_address])]
      evaluated(r) == moved(r, ToUint16(r.val))
  IN  evaluated(evaluate_expression(org_operands(st), st.operand1))

name(st) == st
title(st) == st

\* The mnemonic table of initialize_mnemonic_handlers.
mnemonic_handlers ==
  DOMAIN NoOperandOps \cup DOMAIN Address16Ops \cup DOMAIN Immediate8Ops
  \cup DOMAIN Register8Ops \cup DOMAIN Register8ShiftedOps \cup DOMAIN Register16Ops
  \cup DOMAIN IndirectOps
  \cup {"lxi", "mvi", "mov", "rst", "db", "ds", "dw", "end", "equ", "name", "org", "title"}

handler(st, mn) ==
  CASE mn \in DOMAIN NoOperandOps        -> no_operand_op(st, mn)
    [] mn \in DOMAIN Address16Ops        -> address16_op(st, mn)
    [] mn \in DOMAIN Immediate8Ops       -> immediate8_op(st, mn)
    [] mn \in DOMAIN Register8Ops        -> register8_op(st, mn)
    [] mn \in DOMAIN Register8ShiftedOps -> register8_shifted_op(st, mn)
    [] mn \in DOMAIN Register16Ops       -> register16_op(st, mn)
    [] mn \in DOMAIN IndirectOps         -> indirect_op(st, mn)
    [] mn = "lxi"   -> lxi(st)
    [] mn = "mvi"   -> mvi(st)
    [] mn = "mov"   -> mov(st)
    [] mn = "rst"   -> rst(st)
    [] mn = "db"    -> db(st)
    [] mn = "ds"    -> ds(st)
    [] mn = "dw"    -> dw(st)
    [] mn = "end"   -> end(st)
    [] mn = "equ"   -> equ(st)
    [] mn = "name"  -> name(st)
    [] mn = "org"   -> org(st)
    [] mn = "title" -> title(st)

\* process_instruction after mn = the mnemonic as a key of the table.
dispatch(st, mn) ==
  IF Len(st.mnemonic) = 0 /\ Len(st.label) = 0 THEN st
  ELSE IF mn \in mnemonic_handlers THEN handler(st, mn)
  ELSE IF Len(st.mnemonic) = 0 THEN pass_action(st, 0, <<>>, TRUE)
  ELSE report_error(st, "unknown mnemonic \"" \o mn \o "\"", st.lineno)

\* Dispatches a parsed instruction to the correct handler function.
process_instruction(st) == dispatch(st, Str(st.mnemonic))

(***************************************************************************)
(* Conditional assembly.                                                   *)
(***************************************************************************)
\* A should_skip that looks at the outermost IF only (not the code's).
should_skip_outermost(st) == Len(st.if_stack) > 0 /\ ~st.if_stack[1]

should_skip(st) == \E i \in 1..Len(st.if_stack) : ~st.if_stack[i]

\* The relational operators in the order evaluate_conditional searches them:
\* for each pair the word, then the symbol.
RelationalOps ==
  << <<"n","e">>, <<"!","=">>, <<"e","q">>, <<"=">>, <<"g","e">>, <<">","=">>,
     <<"l","e">>, <<"<","=">>, <<"g","t">>, <<">">>, <<"l","t">>, <<"<">> >>

relation(op_str, lhs_val, rhs_val) ==
  CASE op_str \in {"eq", "="}  -> lhs_val = rhs_val
    [] op_str \in {"ne", "!="} -> lhs_val # rhs_val
    [] op_str \in {"gt", ">"}  -> lhs_val > rhs_val
    [] op_str \in {"lt", "<"}  -> lhs_val < rhs_val
    [] op_str \in {"ge", ">="} -> lhs_val >= rhs_val
    [] op_str \in {"le", "<="} -> lhs_val <= rhs_val

\* The index in RelationalOps of the first operator that occurs in expr, 0
\* when none does.
first_relational(expr) ==
  LET first(found) ==
        IF found = {} THEN 0 ELSE CHOOSE x \in found : \A y \in found : x <= y
  IN  first({ k \in 1..Len(RelationalOps) : find(expr, RelationalOps[k], 1) # 0 })

\* The text on the left of the operator op found in expr: all of expr when
\* there is no operator.
lhs_text(expr, op) ==
  IF Len(op) = 0 THEN expr ELSE SubSeq(expr, 1, find(expr, op, 1) - 1)

rhs_text(expr, op) == SubSeq(expr, find(expr, op, 1) + Len(op), Len(expr))

\* The outcome of a comparison whose sides have been evaluated.
compared(op, lhs, rhs) ==
  [val |-> relation(Str(op), lhs.val, rhs.val), st |-> rhs.st]

\* evaluate_conditional after the left side (the whole of expr when it holds
\* no relational operator, and then true when not zero).
conditional_of(expr, op, lhs) ==
  IF Len(op) = 0 THEN [val |-> lhs.val # 0, st |-> lhs.st]
  ELSE IF ~Running(lhs.st) THEN [val |-> FALSE, st |-> lhs.st]
  ELSE compared(op, lhs, evaluate_expression(lhs.st, rhs_text(expr, op)))

\* evaluate_conditional with the operator it found (empty when none).
conditional_on(st, expr, op) ==
  conditional_of(expr, op, evaluate_expression(st, lhs_text(expr, op)))

evaluate_conditional(st, expr) ==
  LET found_op(k) == IF k = 0 THEN <<>> ELSE RelationalOps[k]
  IN  conditional_on(st, expr, found_op(first_relational(expr)))

(***************************************************************************)
(* Macros.                                                                 *)
(***************************************************************************)
\* One line of pass 0: first and second are its first two words in lower
\* case.
RECURSIVE preprocess_loop(_, _, _, _, _)
preprocess_line(st, lines, i, in_macro_def, current_macro, temp_line, first, second) ==
  IF second = "macro"
  THEN IF in_macro_def
       THEN report_error(st, "nested macro definitions are not supported", i)
       ELSE preprocess_loop(st, lines, i + 1, TRUE,
              [name |-> first,
               params |-> split_args(after_second_word(temp_line), ","),
               body_lines |-> <<>>])
  ELSE IF first = "endm" \/ first = "mend"
  THEN IF ~in_macro_def THEN report_error(st, "ENDM without MACRO", i)
       ELSE preprocess_loop([st EXCEPT !.macros = Put(@, current_macro.name,
                                                    current_macro)],
                            lines, i + 1, FALSE, current_macro)
  ELSE IF in_macro_def
  THEN preprocess_loop(st, lines, i + 1, TRUE,
         [current_macro EXCEPT !.body_lines = Append(@, lines[i + 1])])
  ELSE preprocess_loop(st, lines, i + 1, FALSE, current_macro)

\* Pass 0 over the lines from index i (0-based, as in the code).
preprocess_loop(st, lines, i, in_macro_def, current_macro) ==
  IF ~Running(st) THEN st
  ELSE IF i >= Len(lines)
  THEN IF in_macro_def
       THEN report_error(st, "MACRO definition not closed with ENDM", Len(lines))
       ELSE st
  ELSE preprocess_line(st, lines, i, in_macro_def, current_macro,
                       trim(lines[i + 1]),
                       Str(to_lower(first_word(trim(lines[i + 1])))),
                       Str(to_lower(second_word(trim(lines[i + 1])))))

preprocess_macros(st, lines) ==
  preprocess_loop(st, lines, 0, FALSE, [name |-> "", params |-> <<>>, body_lines |-> <<>>])

\* std::to_string of a non-negative int.
RECURSIVE to_string(_)
to_string(n) ==
  IF n < 10 THEN <<DigitChars[n + 1]>>
  ELSE to_string(n \div 10) \o <<DigitChars[(n % 10) + 1]>>

\* operator< of std::string: the order in which a std::map iterates its keys.
RECURSIVE string_less(_, _)
string_less(a, b) ==
  LET less(x, y) == IF x # y THEN x < y ELSE string_less(Tail(a), Tail(b))
  IN  IF Len(b) = 0 THEN FALSE
      ELSE IF Len(a) = 0 THEN TRUE
      ELSE less(char_code(a[1]), char_code(b[1]))

\* map[key] = value on a std::map kept as a sequence of pairs in key order.
RECURSIVE map_insert(_, _, _)
map_insert(m, key, value) ==
  IF Len(m) = 0 THEN << <<key, value>> >>
  ELSE IF m[1][1] = key THEN << <<key, value>> >> \o Tail(m)
  ELSE IF string_less(key, m[1][1]) THEN << <<key, value>> >> \o m
  ELSE <<m[1]>> \o map_insert(Tail(m), key, value)

RECURSIVE insert_locals(_, _, _, _)
insert_locals(m, local_labels, k, counter) ==
  IF k > Len(local_labels) THEN m
  ELSE insert_locals(map_insert(m, local_labels[k],
                                local_labels[k] \o <<"_">> \o to_string(counter)),
                     local_labels, k + 1, counter)

\* The unique names of the labels the body declares LOCAL: only the word that
\* follows LOCAL is read.
RECURSIVE local_label_map(_, _, _, _)
local_label_map(body_lines, k, counter, m) ==
  LET declared(temp_body) ==
        IF Str(to_lower(first_word(temp_body))) = "local"
        THEN insert_locals(m, split_args(second_word(temp_body), ","), 1, counter)
        ELSE m
  IN  IF k > Len(body_lines) THEN m
      ELSE local_label_map(body_lines, k + 1, counter, declared(trim(body_lines[k])))

\* while ((pos = line.find(from, pos)) != npos) { line.replace(...); pos += to.length(); }
\* for a non-empty from.
RECURSIVE replace_from(_, _, _, _)
replace_from(line, from, to, pos) ==
  LET replaced(at) ==
        IF at = 0 THEN line
        ELSE replace_from(SubSeq(line, 1, at - 1) \o to
                            \o SubSeq(line, at + Len(from), Len(line)),
                          from, to, at + Len(to))
  IN  replaced(find(line, from, pos))

\* The same loop for any from: an empty from is found at every position, and
\* the position never passes the end of the line, so the loop does not end.
replace_all(r, from, to) ==
  IF ~Running(r.st) THEN r
  ELSE IF Len(from) = 0
  THEN [r EXCEPT !.st = Abort(r.st, "hang", "substitution of an empty name never ends")]
  ELSE [r EXCEPT !.line = replace_from(r.line, from, to, 1)]

RECURSIVE substitute_params(_, _, _, _)
substitute_params(r, params, args, i) ==
  IF i > Len(params) THEN r
  ELSE substitute_params(replace_all(r, params[i], args[i]), params, args, i + 1)

RECURSIVE substitute_locals(_, _, _)
substitute_locals(r, m, i) ==
  IF i > Len(m) THEN r
  ELSE substitute_locals(replace_all(r, m[i][1], m[i][2]), m, i + 1)

\* The deepest nesting of macro expansions the model follows.
MaxMacroDepth == 3

RECURSIVE expand_and_process_line(_, _, _, _)
RECURSIVE expand_body(_, _, _, _, _, _, _)

\* The loop over the body lines of one expansion.
expand_body(st, macro_def, args, locals, k, original_lineno, depth) ==
  LET expanded(l) ==
        expand_body(expand_and_process_line(l.st, l.line, original_lineno, depth),
                    macro_def, args, locals, k + 1, original_lineno, depth)
  IN  IF k > Len(macro_def.body_lines) \/ ~Running(st) THEN st
      ELSE expanded(substitute_locals(
                      substitute_params([line |-> macro_def.body_lines[k], st |-> st],
                                        macro_def.params, args, 1),
                      locals, 1))

\* The IF directive: cond is the condition and the state after evaluating it.
if_directive(cond) ==
  IF Running(cond.st) THEN [cond.st EXCEPT !.if_stack = Append(@, cond.val)]
  ELSE cond.st

\* A macro call: counted is the state after macro_expansion_counter++.
expand_macro(counted, macro_def, args, original_lineno, depth) ==
  IF Len(args) # Len(macro_def.params)
  THEN report_error(counted, "macro '" \o macro_def.name
                               \o "' argument count mismatch", original_lineno)
  ELSE IF depth >= MaxMacroDepth
  THEN Abort(counted, "out_of_model", "macro expansions nested too deep")
  ELSE expand_body(counted, macro_def, args,
                   local_label_map(macro_def.body_lines, 1,
                                   counted.macro_expansion_counter, <<>>),
                   1, original_lineno, depth + 1)

\* expand_and_process_line after lower_first = the first word of the trimmed
\* line in lower case and rest = what follows it.
process_line(st, line, temp_line, lower_first, rest, original_lineno, depth) ==
  IF ~Running(st) THEN st
  ELSE IF Len(temp_line) = 0 \/ temp_line[1] = ";" THEN st
  ELSE IF lower_first = "if"
  THEN IF should_skip(st) THEN [st EXCEPT !.if_stack = Append(@, FALSE)]
       ELSE if_directive(evaluate_conditional(st, rest))
  ELSE IF lower_first = "endif"
  THEN IF Len(st.if_stack) = 0
       THEN report_error(st, "ENDIF without IF", original_lineno)
       ELSE [st EXCEPT !.if_stack = SubSeq(@, 1, Len(@) - 1)]
  ELSE IF should_skip(st) THEN st
  ELSE IF lower_first = "error" \/ lower_first = "local" THEN st
  ELSE IF lower_first \in DOMAIN st.macros
  THEN expand_macro([st EXCEPT !.macro_expansion_counter = @ + 1],
                    st.macros[lower_first], split_args(rest, ","),
                    original_lineno, depth)
  ELSE process_instruction(parse([st EXCEPT !.lineno = original_lineno], line))

\* Expands macros, handles conditional assembly, and sends normal instructions
\* to be parsed.
expand_and_process_line(st, line, original_lineno, depth) ==
  process_line(st, line, trim(line), Str(to_lower(first_word(trim(line)))),
               after_first_word(trim(line)), original_lineno, depth)

(***************************************************************************)
(* The run of assemble(lines) as a state machine: one step for the set-up  *)
(* (reset_state, preprocess_macros, the start of pass 1), one step for     *)
(* each iteration of the loop of do_pass, one step for the end of each     *)
(* pass.                                                                   *)
(***************************************************************************)
VARIABLES
  lines,             \* the source lines given to assemble
  pc,                \* "constructed", "pass", "done", or "exit" after a fatal end
  assembler,         \* the Assembler object (the record st above)
  in_macro_def,      \* the local of do_pass
  line_address_log,  \* line_address of each iteration of do_pass, per pass
  listing,           \* what pass 2 writes to the listing stream, per line
  value,             \* the value returned by a direct call of evaluate_expression
  earlier_calls      \* what each earlier call of assemble on this object left

vars == <<lines, pc, assembler, in_macro_def, line_address_log, listing, value, earlier_calls>>

\* The start of do_pass: in_macro_def = false, if_stack.clear(), lineno = 0.
begin_pass(st) == [st EXCEPT !.if_stack = <<>>, !.lineno = 0]

\* assemble, up to the first iteration of pass 1.
Assemble ==
  /\ pc = "constructed"
  /\ LET preprocessed(st) ==
           IF Running(st)
           THEN /\ assembler' = begin_pass([st EXCEPT !.source_pass = 1])
                /\ pc' = "pass"
           ELSE /\ assembler' = st
                /\ pc' = "exit"
     IN  preprocessed(preprocess_macros(reset_state(assembler), lines))
  /\ in_macro_def' = FALSE
  /\ UNCHANGED <<lines, earlier_calls, line_address_log, listing, value>>

\* A loop condition that does not look at assembly_finished (not the code's).
LoopRunsPastEnd ==
  /\ pc = "pass"
  /\ assembler.lineno < Len(lines)

LoopRuns ==
  /\ pc = "pass"
  /\ assembler.lineno < Len(lines)
  /\ ~assembler.assembly_finished

\* The entry of the listing for the current line and the bytes it produced.
listing_entry(temp_line, bytes) ==
  [line |-> assembler.lineno + 1, address |-> assembler.address,
   bytes |-> bytes, blank |-> Len(temp_line) = 0]

\* One iteration of the for loop of do_pass.
DoPassLine ==
  /\ LoopRuns
  /\ line_address_log' =
       Append(line_address_log,
              [pass |-> assembler.source_pass, line |-> assembler.lineno + 1,
               address |-> assembler.address])
  /\ LET processed(st, temp_line) ==
           /\ assembler' = IF Running(st) THEN [st EXCEPT !.lineno = @ + 1] ELSE st
           /\ listing' =
                IF Running(st) /\ st.source_pass = 2
                THEN Append(listing,
                            listing_entry(temp_line,
                                          SubSeq(st.output, Len(assembler.output) + 1,
                                                 Len(st.output))))
                ELSE listing
           /\ pc' = IF Running(st) THEN pc ELSE "exit"
           /\ in_macro_def' = IF Running(st) THEN FALSE ELSE in_macro_def
         skipped(temp_line, lower_first) ==
           /\ assembler' = [assembler EXCEPT !.lineno = @ + 1]
           /\ in_macro_def' = IF Len(temp_line) = 0 THEN in_macro_def
                              ELSE ~(lower_first = "endm" \/ lower_first = "mend")
           /\ listing' = IF Len(temp_line) = 0 /\ assembler.source_pass = 2
                         THEN Append(listing, listing_entry(temp_line, <<>>))
                         ELSE listing
           /\ pc' = pc
         iteration(current_line, temp_line, opens) ==
           IF Len(temp_line) = 0 \/ in_macro_def \/ opens
           THEN skipped(temp_line, Str(to_lower(first_word(temp_line))))
           ELSE processed(expand_and_process_line(assembler, current_line,
                                                  assembler.lineno, 0),
                          temp_line)
     IN  iteration(lines[assembler.lineno + 1],
                   trim(lines[assembler.lineno + 1]),
                   Str(to_lower(second_word(trim(lines[assembler.lineno + 1])))) = "macro")
  /\ UNCHANGED <<lines, earlier_calls, value>>

LoopEnds ==
  /\ pc = "pass"
  /\ assembler.lineno >= Len(lines) \/ assembler.assembly_finished

\* The check after the loop of do_pass.
end_pass(st) ==
  IF Len(st.if_stack) # 0
  THEN report_error(st, "IF block not closed with ENDIF", Len(lines))
  ELSE st

\* The end of pass 1 and the set-up of pass 2.
EndPass1 ==
  /\ LoopEnds
  /\ assembler.source_pass = 1
  /\ LET st == end_pass(assembler)
     IN  IF Running(st)
         THEN /\ assembler' = begin_pass([st EXCEPT !.source_pass = 2, !.address = 0,
                                                   !.output = <<>>,
                                                   !.assembly_finished = FALSE,
                                                   !.macro_expansion_counter = 0])
              /\ pc' = "pass"
         ELSE /\ assembler' = st
              /\ pc' = "exit"
  /\ in_macro_def' = FALSE
  /\ UNCHANGED <<lines, earlier_calls, line_address_log, listing, value>>

\* The end of pass 2: assemble returns.
EndPass2 ==
  /\ LoopEnds
  /\ assembler.source_pass = 2
  /\ LET st == end_pass(assembler)
     IN  IF Running(st)
         THEN /\ assembler' = [st EXCEPT !.status = "returned"]
              /\ pc' = "done"
         ELSE /\ assembler' = st
              /\ pc' = "exit"
  /\ UNCHANGED <<lines, earlier_calls, in_macro_def, line_address_log, listing, value>>

Next == Assemble \/ DoPassLine \/ EndPass1 \/ EndPass2

StartOf(programs) ==
  /\ lines \in programs
  /\ pc = "constructed"
  /\ assembler = Constructed
  /\ in_macro_def = FALSE
  /\ line_address_log = <<>>
  /\ listing = <<>>
  /\ value = 0
  /\ earlier_calls = <<>>

(***************************************************************************)
(* Source programs.  A program is a sequence of lines, a line a sequence   *)
(* of characters.  The scenarios are the worked examples of the            *)
(* specification, character for character.                                 *)
(***************************************************************************)
ScenarioA ==
  <<<<"O","R","G"," ","1","0","0","H">>,
    <<"M","V","I"," ","A",",","5">>,
    <<"M","V","I"," ","B",",","1","0">>,
    <<"A","D","D"," ","B">>,
    <<"S","T","A"," ","R","E","S","U","L","T">>,
    <<"H","L","T">>,
    <<"R","E","S","U","L","T",":"," ","D","S"," ","1">>,
    <<"E","N","D">>>>

ScenarioB ==
  <<<<"O","R","G"," ","0">>,
    <<"J","M","P"," ","T","A","R","G","E","T">>,
    <<"N","O","P">>,
    <<"T","A","R","G","E","T",":"," ","H","L","T">>>>

ScenarioD ==
  <<<<"O","R","G"," ","0">>,
    <<"V","A","L"," ","E","Q","U"," ","1","2","3","4","H">>,
    <<"D","B"," ","L","O","W"," ","V","A","L",","," ","H","I","G","H"," ","V","A","L">>>>

ScenarioF ==
  <<<<"D","E","B","U","G"," ","E","Q","U"," ","1">>,
    <<" "," "," "," "," "," ","O","R","G"," ","0">>,
    <<" "," "," "," "," "," ","I","F"," ","D","E","B","U","G"," ","E","Q"," ","1">>,
    <<" "," "," "," "," "," ","M","V","I"," ","A",",","0","F","F","H">>,
    <<" "," "," "," "," "," ","E","N","D","I","F">>,
    <<" "," "," "," "," "," ","I","F"," ","D","E","B","U","G"," ","E","Q"," ","0">>,
    <<" "," "," "," "," "," ","M","V","I"," ","A",",","0","0","H">>,
    <<" "," "," "," "," "," ","E","N","D","I","F">>,
    <<" "," "," "," "," "," ","H","L","T">>>>

\* Scenario E with the LOCAL line and the three body lines as given.
MacroProgram(local_line, mvi_line, label_line, jnz_line) ==
  <<<<"D","E","L","A","Y"," ","M","A","C","R","O"," ","C","O","U","N","T">>,
    local_line, mvi_line, label_line, jnz_line,
    <<" "," "," "," "," "," ","E","N","D","M">>,
    <<" "," "," "," "," "," ","O","R","G"," ","0">>,
    <<" "," "," "," "," "," ","D","E","L","A","Y"," ","5">>,
    <<" "," "," "," "," "," ","D","E","L","A","Y"," ","3">>>>

ScenarioE ==
  MacroProgram(<<" "," "," "," "," "," ","L","O","C","A","L"," ","L","O","O","P">>,
               <<" "," "," "," "," "," ","M","V","I"," ","B",",","C","O","U","N","T">>,
               <<"L","O","O","P",":"," ","D","C","R"," ","B">>,
               <<" "," "," "," "," "," ","J","N","Z"," ","L","O","O","P">>)

(***************************************************************************)
(* Families of programs, built from the text of their lines.               *)
(***************************************************************************)
\* The decimal literal of n, and a name made of a letter and a number.
Literal(n) == IF n < 0 THEN <<"-">> \o to_string(-n) ELSE to_string(n)

Name(letter, k) == <<letter>> \o to_string(k)

\* Programs of fixed-size instructions: ORG base, then MaxLines lines, line i
\* labelled Li and holding NOP, MVI, or a JMP / LXI whose 16-bit operand names
\* the first label, the last label, or the label of the next line (the first
\* after the last).
MaxLines == 3

OrgBases == {0, 254}

FixedKinds == {<<"nop", "none">>, <<"mvi", "none">>, <<"jmp", "first">>,
               <<"jmp", "last">>, <<"lxi", "next">>}

TargetOf(i, kind) ==
  CASE kind[2] = "first" -> 1
    [] kind[2] = "last"  -> MaxLines
    [] kind[2] = "next"  -> (i % MaxLines) + 1
    [] OTHER             -> 0

SizeOf(kind) == CASE kind[1] = "nop" -> 1 [] kind[1] = "mvi" -> 2 [] OTHER -> 3

FixedLine(i, kind) ==
  Name("L", i) \o <<":", " ">> \o
  (CASE kind[1] = "nop" -> <<"N","O","P">>
     [] kind[1] = "mvi" -> <<"M","V","I"," ","A",",","5">>
     [] kind[1] = "jmp" -> <<"J","M","P"," ">> \o Name("L", TargetOf(i, kind))
     [] kind[1] = "lxi" -> <<"L","X","I"," ","H",",">> \o Name("L", TargetOf(i, kind)))

FixedProgram(base, kinds) ==
  <<<<"O","R","G"," ">> \o Literal(base)>> \o [i \in 1..MaxLines |-> FixedLine(i, kinds[i])]

FixedShapes == OrgBases \X [1..MaxLines -> FixedKinds]

FixedPrograms == { FixedProgram(sh[1], sh[2]) : sh \in FixedShapes }

\* Programs that define a name twice (or two names once each): each
\* definition is a label on an instruction line, a label on a directive line,
\* a label-only line or an EQU.
DefinitionKinds == {"instruction", "directive", "label_only", "equ"}

Definition(kind, symbol) ==
  CASE kind = "instruction" -> symbol \o <<":"," ","N","O","P">>
    [] kind = "directive"   -> symbol \o <<":"," ","D","B"," ","1">>
    [] kind = "label_only"  -> symbol \o <<":">>
    [] kind = "equ"         -> symbol \o <<" ","E","Q","U"," ","7">>

DefinitionProgram(kind1, kind2, name2) ==
  <<<<"O","R","G"," ","0">>, <<"M","V","I"," ","A",",","1">>, Definition(kind1, <<"X">>), <<"N","O","P">>, Definition(kind2, name2),
    <<"H","L","T">>>>

SecondNames == {<<"X">>, <<"x">>, <<"Y">>}

DefinitionPrograms ==
  { DefinitionProgram(k1, k2, n2) : k1 \in DefinitionKinds, k2 \in DefinitionKinds,
                                    n2 \in SecondNames }

\* Programs that use the symbol U in one place, with U defined before the
\* use, after it, or never; the use is followed by a label and a jump to it.
UseKinds == {"jmp", "lxi", "mvi", "db", "dw", "ds", "org", "equ", "if"}

Use(kind) ==
  CASE kind = "jmp" -> <<<<"J","M","P"," ","U">>>>
    [] kind = "lxi" -> <<<<"L","X","I"," ","H",",","U">>>>
    [] kind = "mvi" -> <<<<"M","V","I"," ","A",",","U">>>>
    [] kind = "db"  -> <<<<"D","B"," ","U">>>>
    [] kind = "dw"  -> <<<<"D","W"," ","U">>>>
    [] kind = "ds"  -> <<<<"D","S"," ","U">>>>
    [] kind = "org" -> <<<<"O","R","G"," ","U">>>>
    [] kind = "equ" -> <<<<"V"," ","E","Q","U"," ","U">>>>
    [] kind = "if"  -> <<<<"I","F"," ","U">>, <<"N","O","P">>, <<"E","N","D","I","F">>>>

DefineU == <<"U"," ","E","Q","U"," ","2">>

UsePlaces == {"before", "after", "never"}

UseProgram(kind, place) ==
  (IF place = "before" THEN <<DefineU>> ELSE <<>>)
  \o Use(kind)
  \o <<<<"L",":"," ","N","O","P">>, <<"J","M","P"," ","L">>>>
  \o (IF place = "after" THEN <<DefineU>> ELSE <<>>)

UsePrograms == { UseProgram(k, p) : k \in UseKinds, p \in UsePlaces }

\* Programs with ORG directives: an initial ORG (or none), an instruction, a
\* second ORG to a lower, equal or higher address, and an instruction.
MaxOrg == 3

OrgLine(target) == <<"O","R","G"," ">> \o Literal(target)

OrgProgram(first, second) ==
  (IF first < 0 THEN <<>> ELSE <<OrgLine(first)>>)
  \o <<<<"N","O","P">>, OrgLine(second), <<"M","V","I"," ","A",",","1">>>>

OrgPrograms == { OrgProgram(f, s) : f \in -1..MaxOrg, s \in 0..(MaxOrg + 3) }

\* A program whose location counter passes 0FFFFH.
WrapProgram == <<<<"O","R","G"," ","0","F","F","F","F","H">>, <<"N","O","P">>, <<"N","O","P">>>>

\* Scenario E with the LOCAL name list and the label of the body written in
\* several spacings and letter cases.
LocalLines ==
  {<<" "," "," "," "," "," ","L","O","C","A","L"," ","L","O","O","P">>,
   <<" "," "," "," "," "," ","L","O","C","A","L"," "," "," ","L","O","O","P">>,
   <<"L","O","C","A","L"," ","L","O","O","P">>,
   <<" "," "," "," "," "," ","L","O","C","A","L"," ","L","O","O","P",",","D","O","N","E">>,
   <<" "," "," "," "," "," ","L","O","C","A","L"," ","L","O","O","P",","," ","D","O","N","E">>,
   <<" "," "," "," "," "," ","l","o","c","a","l"," ","l","o","o","p">>}

BodyNames == {<<"L","O","O","P">>, <<"l","o","o","p">>, <<"L","o","o","p">>}

LocalPrograms ==
  { MacroProgram(l, <<" "," "," "," "," "," ","M","V","I"," ","B",",","C","O","U","N","T">>, n \o <<":"," ","D","C","R"," ","B">>, <<" "," "," "," "," "," ","J","N","Z"," ">> \o n) :
      l \in LocalLines, n \in BodyNames }

\* One-line programs whose immediate operand is a character constant.
CharSamples == {"A", "a", "0", "?", " ", "~"}

MviChar(c) == <<<<"M","V","I"," ","A",",">> \o <<"'", c, "'">>>>

CpiChar(c) == <<<<"C","P","I"," ">> \o <<"'", c, "'">>>>

CharPrograms == { MviChar(c) : c \in CharSamples } \cup { CpiChar(c) : c \in CharSamples }

\* Programs with one IF block: the condition compares two literals with one
\* of the twelve relational spellings, or is a single literal.
MaxOperand == 2

Operands == 0..MaxOperand

Spellings == { RelationalOps[k] : k \in 1..Len(RelationalOps) }

IfBlock(condition) == <<<<"I","F"," ">> \o condition, <<"N","O","P">>, <<"E","N","D","I","F">>, <<"H","L","T">>>>

Comparison(x, op, y) == IfBlock(Literal(x) \o <<" ">> \o op \o <<" ">> \o Literal(y))

ConditionPrograms ==
  { Comparison(x, op, y) : x \in Operands, op \in Spellings, y \in Operands }
  \cup { IfBlock(Literal(x)) : x \in Operands }

\* Programs that define the macro M with p parameters and invoke it with a
\* arguments; its body is HLT.
MaxParams == 2

Counts == 0..MaxParams

ParamNames == <<"X", "Y", "Z">>

ArgTexts == <<"1", "2", "3">>

RECURSIVE comma_list(_, _)
comma_list(items, n) ==
  IF n = 0 THEN <<>>
  ELSE IF n = 1 THEN <<items[1]>>
  ELSE comma_list(items, n - 1) \o <<",", items[n]>>

MacroCall(p, a) ==
  <<<<"M"," ","M","A","C","R","O">> \o (IF p = 0 THEN <<>> ELSE <<" ">> \o comma_list(ParamNames, p)),
    <<"H","L","T">>,
    <<"E","N","D","M">>,
    <<"M">> \o (IF a = 0 THEN <<>> ELSE <<" ">> \o comma_list(ArgTexts, a))>>

MacroCallPrograms == { MacroCall(p, a) : p \in Counts, a \in Counts }

\* Programs of one DW line with k words, with or without the label L,
\* followed by HLT.
MaxWords == 3

WordValues == {1, 258}

WordLists == UNION { [1..k -> WordValues] : k \in 1..MaxWords }

RECURSIVE word_texts(_, _)
word_texts(words, n) ==
  IF n = 1 THEN Literal(words[1])
  ELSE word_texts(words, n - 1) \o <<",">> \o Literal(words[n])

DwProgram(labelled, words) ==
  <<(IF labelled THEN <<"L", ":", " ">> ELSE <<>>) \o <<"D","W"," ">> \o word_texts(words, Len(words)),
    <<"H","L","T">>>>

DwPrograms == { DwProgram(labelled, words) : labelled \in BOOLEAN, words \in WordLists }

\* Programs with lines after END: a line that would emit bytes, define a
\* symbol, move the location counter, fail, or open an IF block; and an END
\* that a macro body executes.
BeforeEnd == {<<"N","O","P">>, <<"L","1",":"," ","H","L","T">>}

AfterEnd ==
  {<<"L","2",":"," ","M","V","I"," ","A",",","1">>, <<"X"," ","E","Q","U"," ","5">>, <<"O","R","G"," ","3">>,
   <<"D","B"," ","1",",","2">>, <<"J","M","P"," ","N","O","W","H","E","R","E">>, <<"I","F"," ","1">>}

EndProgram(before, after) == <<before, <<"E","N","D">>, after>>

EndInMacro ==
  <<<<"M"," ","M","A","C","R","O"," ","X">>, <<" ","E","N","D">>, <<" ","N","O","P">>, <<"E","N","D","M">>, <<"M"," ","1">>, <<"H","L","T">>>>

EndPrograms == { EndProgram(before, after) : before \in BeforeEnd, after \in AfterEnd }
                 \cup {EndInMacro}

\* Programs whose expressions divide by zero, directly or by a symbol that
\* is defined further down (0 in pass 1), or hold a negative decimal literal
\* below the least int.
Dividends == {1, 7}

Evaluating == {<<"D","B"," ">>, <<"D","W"," ">>, <<"M","V","I"," ","A",",">>, <<"D","S"," ">>, <<"O","R","G"," ">>}

DivisionByZero(op, a) == <<op \o Literal(a) \o <<"/", "0">>>>

ForwardDivisor(op, a) == <<op \o Literal(a) \o <<"/", "X">>, <<"X"," ","E","Q","U"," ","2">>>>

HugeNegative(op) == <<op \o <<"-","9","9","9","9","9","9","9","9","9","9","9">>>>

AbnormalPrograms ==
  { DivisionByZero(op, a) : op \in Evaluating, a \in Dividends }
  \cup { ForwardDivisor(op, a) : op \in Evaluating, a \in Dividends }
  \cup { HugeNegative(op) : op \in Evaluating }

\* One-line programs with a register-pair instruction: each of the six
\* mnemonics with each pair name, in either case, and with operands that name
\* no pair.
PairMnemonics == {<<"L","X","I">>, <<"I","N","X">>, <<"D","C","X">>, <<"D","A","D">>, <<"P","U","S","H">>, <<"P","O","P">>}

PairOperands ==
  {<<"B">>, <<"B","C">>, <<"D">>, <<"D","E">>, <<"H">>, <<"H","L">>, <<"P","S","W">>, <<"S","P">>, <<"b">>, <<"h","l">>, <<"p","s","w">>, <<"s","p">>, <<"A">>, <<"M">>,
   <<"B","D">>, <<"P","C">>, <<"1">>}

PairProgram(mn, op) ==
  <<mn \o <<" ">> \o op \o (IF mn = <<"L","X","I">> THEN <<",","1">> ELSE <<>>)>>

PairPrograms == { PairProgram(mn, op) : mn \in PairMnemonics, op \in PairOperands }

\* One-line programs whose immediate or address operand has a value outside
\* the width of its field, written as a literal or as a sum.
ImmediateValues ==
  {-65537, -65536, -32769, -257, -256, -129, -1, 0, 127, 255, 256, 511, 32768,
   65535, 65536, 65537, 70000}

ImmediateOperands ==
  { [text |-> Literal(v), v |-> v] : v \in ImmediateValues }
  \cup { [text |-> Literal(a) \o <<"+">> \o Literal(b), v |-> a + b] :
         a \in {200, 65535}, b \in {100, 2} }

\* The instructions with an immediate-8 operand (width 8) and with an
\* immediate-16 or direct-address operand (width 16), and their opcodes.
ImmediateInstructions ==
  { [text |-> <<"M","V","I"," ","A",",">>, opcode |-> 62, width |-> 8],
    [text |-> <<"A","D","I"," ">>, opcode |-> 198, width |-> 8],
    [text |-> <<"C","P","I"," ">>, opcode |-> 254, width |-> 8],
    [text |-> <<"L","X","I"," ","H",",">>, opcode |-> 33, width |-> 16],
    [text |-> <<"J","M","P"," ">>, opcode |-> 195, width |-> 16],
    [text |-> <<"S","T","A"," ">>, opcode |-> 50, width |-> 16] }

ImmediateProgram(i, o) == <<i.text \o o.text>>

ImmediatePrograms ==
  { ImmediateProgram(i, o) : i \in ImmediateInstructions, o \in ImmediateOperands }

\* Programs with one line of every mnemonic of the assembler (END apart) and
\* of the operand forms of DB, DW, DS and ORG, between ORG 2 and HLT.
StatementLines ==
  {<<"N","O","P">>,
   <<"L","X","I"," ","S","P",",","1","2","3","4","H">>,
   <<"S","T","A","X"," ","D">>,
   <<"I","N","X"," ","H">>,
   <<"I","N","R"," ","M">>,
   <<"D","C","R"," ","M">>,
   <<"M","V","I"," ","M",",","3","0","0">>,
   <<"R","L","C">>,
   <<"D","A","D"," ","H">>,
   <<"L","D","A","X"," ","D">>,
   <<"D","C","X"," ","H">>,
   <<"R","R","C">>,
   <<"R","A","L">>,
   <<"R","A","R">>,
   <<"S","H","L","D"," ","1","2","3","4","H">>,
   <<"D","A","A">>,
   <<"L","H","L","D"," ","1","2","3","4","H">>,
   <<"C","M","A">>,
   <<"S","T","A"," ","1","2","3","4","H">>,
   <<"S","T","C">>,
   <<"L","D","A"," ","1","2","3","4","H">>,
   <<"C","M","C">>,
   <<"M","O","V"," ","M",",","A">>,
   <<"H","L","T">>,
   <<"A","D","D"," ","M">>,
   <<"A","D","C"," ","M">>,
   <<"S","U","B"," ","M">>,
   <<"S","B","B"," ","M">>,
   <<"A","N","A"," ","M">>,
   <<"X","R","A"," ","M">>,
   <<"O","R","A"," ","M">>,
   <<"C","M","P"," ","M">>,
   <<"R","N","Z">>,
   <<"P","O","P"," ","P","S","W">>,
   <<"J","N","Z"," ","1","2","3","4","H">>,
   <<"J","M","P"," ","1","2","3","4","H">>,
   <<"C","N","Z"," ","1","2","3","4","H">>,
   <<"P","U","S","H"," ","P","S","W">>,
   <<"A","D","I"," ","5">>,
   <<"R","S","T"," ","7">>,
   <<"R","Z">>,
   <<"R","E","T">>,
   <<"J","Z"," ","1","2","3","4","H">>,
   <<"C","Z"," ","1","2","3","4","H">>,
   <<"C","A","L","L"," ","1","2","3","4","H">>,
   <<"A","C","I"," ","5">>,
   <<"R","N","C">>,
   <<"J","N","C"," ","1","2","3","4","H">>,
   <<"O","U","T"," ","5">>,
   <<"C","N","C"," ","1","2","3","4","H">>,
   <<"S","U","I"," ","5">>,
   <<"R","C">>,
   <<"J","C"," ","1","2","3","4","H">>,
   <<"I","N"," ","5">>,
   <<"C","C"," ","1","2","3","4","H">>,
   <<"S","B","I"," ","5">>,
   <<"J","P","E"," ","1","2","3","4","H">>,
   <<"R","P","O">>,
   <<"J","P","O"," ","1","2","3","4","H">>,
   <<"X","T","H","L">>,
   <<"C","P","O"," ","1","2","3","4","H">>,
   <<"A","N","I"," ","5">>,
   <<"R","P","E">>,
   <<"P","C","H","L">>,
   <<"X","C","H","G">>,
   <<"C","P","E"," ","1","2","3","4","H">>,
   <<"X","R","I"," ","5">>,
   <<"R","P">>,
   <<"J","P"," ","1","2","3","4","H">>,
   <<"D","I">>,
   <<"C","P"," ","1","2","3","4","H">>,
   <<"O","R","I"," ","5">>,
   <<"R","M">>,
   <<"S","P","H","L">>,
   <<"J","M"," ","1","2","3","4","H">>,
   <<"E","I">>,
   <<"C","M"," ","1","2","3","4","H">>,
   <<"C","P","I"," ","5">>,
   <<"D","B"," ","1">>,
   <<"D","B"," ","1",",","2",",","3">>,
   <<"D","B"," ","'","A","B","'">>,
   <<"D","B"," ","'","A","'">>,
   <<"D","B"," ","\"","h","e","l","l","o","\"">>,
   <<"D","B"," ","<","1",",","2",",","3",">">>,
   <<"D","B"," ","1",",","<","2",",","3",">",",","'","x","y","'",",","4">>,
   <<"D","B"," ","'","'">>,
   <<"D","B"," ","'","A",",","B","'">>,
   <<"D","B"," ","<","1",">">>,
   <<"D","B"," ","1",","," ","2"," ",",","3">>,
   <<"D","B"," ","'","A"," ","B","'">>,
   <<"D","B"," ","<","1",",","2",">",",","<","3",">">>,
   <<"D","S"," ","0">>,
   <<"D","S"," ","3">>,
   <<"D","S"," ","2",",","2","5","5">>,
   <<"D","S"," ","1","+","1">>,
   <<"D","W"," ","1">>,
   <<"D","W"," ","1","2","3","4","H",",","5",",","6">>,
   <<"X"," ","E","Q","U"," ","5">>,
   <<"N","A","M","E"," ","f","o","o">>,
   <<"O","R","G"," ","5">>,
   <<"O","R","G"," ","3">>,
   <<"T","I","T","L","E"," ","f","o","o">>,
   <<"S","I","M">>,
   <<"R","I","M">>}

StatementProgram(line) == <<<<"O","R","G"," ","2">>, line, <<"H","L","T">>>>

StatementPrograms == { StatementProgram(line) : line \in StatementLines }

\* Programs with a labelled DB line between NOP and HLT: its operands are an
\* expression, a quoted string, a character constant and a <...> group, in
\* every order.
MaxDbOperands == 3

DbOperands ==
  { [text |-> <<"7">>, bytes |-> <<7>>],
    [text |-> <<"'","x","y","'">>, bytes |-> <<120, 121>>],
    [text |-> <<"'","A","'">>, bytes |-> <<65>>],
    [text |-> <<"<","1",",","2",">">>, bytes |-> <<1, 2>>] }

DbOperandLists == UNION { [1..k -> DbOperands] : k \in 1..MaxDbOperands }

RECURSIVE db_texts(_, _)
db_texts(operands, n) ==
  IF n = 1 THEN operands[1].text
  ELSE db_texts(operands, n - 1) \o <<",">> \o operands[n].text

LabelledDb(operands) ==
  <<<<"N","O","P">>, <<"L",":"," ","D","B"," ">> \o db_texts(operands, Len(operands)), <<"H","L","T">>>>

LabelledDbPrograms == { LabelledDb(operands) : operands \in DbOperandLists }

\* Programs in which $ stands in an operand, after k NOP lines: JMP $,
\* DB $,$ and X EQU $.
MaxPad == 2

Pads == 0..MaxPad

NopLines(k) == [i \in 1..k |-> <<"N","O","P">>]

JmpHere(k) == NopLines(k) \o <<<<"J","M","P"," ","$">>>>

DbHere(k) == NopLines(k) \o <<<<"D","B"," ","$",",","$">>>>

EquHere(k) == NopLines(k) \o <<<<"X"," ","E","Q","U"," ","$">>, <<"H","L","T">>>>

HerePrograms == UNION { {JmpHere(k), DbHere(k), EquHere(k)} : k \in Pads }

\* Programs in which A is an EQU of B, or of B + 1, and B an EQU of a
\* literal, defined after A or before it; DW A, B shows both values.
EquValues == {1, 5}

EquOfB == {<<"A"," ","E","Q","U"," ","B">>, <<"A"," ","E","Q","U"," ","B","+","1">>}

ForwardEqu(a_line, v) == <<a_line, <<"B"," ","E","Q","U"," ">> \o Literal(v), <<"D","W"," ","A",",","B">>>>

BackwardEqu(a_line, v) == <<<<"B"," ","E","Q","U"," ">> \o Literal(v), a_line, <<"D","W"," ","A",",","B">>>>

EquPrograms ==
  { ForwardEqu(a_line, v) : a_line \in EquOfB, v \in EquValues }
  \cup { BackwardEqu(a_line, v) : a_line \in EquOfB, v \in EquValues }

Programs ==
  {ScenarioA, ScenarioB, ScenarioD, ScenarioE, ScenarioF, WrapProgram}
  \cup FixedPrograms \cup DefinitionPrograms \cup UsePrograms \cup OrgPrograms
  \cup LocalPrograms \cup CharPrograms \cup ConditionPrograms
  \cup MacroCallPrograms \cup DwPrograms \cup EndPrograms
  \cup AbnormalPrograms \cup PairPrograms \cup ImmediatePrograms
  \cup StatementPrograms \cup LabelledDbPrograms \cup HerePrograms
  \cup EquPrograms

Init == StartOf(Programs)

Spec == Init /\ [][Next]_vars

(***************************************************************************)
(* Direct calls of evaluate_expression on the text of an expression.       *)
(***************************************************************************)
MaxLit == 2

Lits == (-MaxLit)..MaxLit

SumProduct(a, b, c) == Literal(a) \o <<" ","+"," ">> \o Literal(b) \o <<" ","*"," ">> \o Literal(c)

DifferenceProduct(a, b, c) == Literal(a) \o <<" ","-"," ">> \o Literal(b) \o <<" ","*"," ">> \o Literal(c)

OrAnd(a, b, c) == Literal(a) \o <<" ","o","r"," ">> \o Literal(b) \o <<" ","a","n","d"," ">> \o Literal(c)

XorAnd(a, b, c) == Literal(a) \o <<" ","x","o","r"," ">> \o Literal(b) \o <<" ","a","n","d"," ">> \o Literal(c)

SumQuotient(a, b, c) == Literal(a) \o <<" ","+"," ">> \o Literal(b) \o <<" ","/"," ">> \o Literal(c)

Parenthesised(a, b, c) ==
  <<"(">> \o Literal(a) \o <<" ","+"," ">> \o Literal(b) \o <<")"," ","*"," ">> \o Literal(c)

PrecedenceTexts ==
  UNION { {SumProduct(a, b, c), DifferenceProduct(a, b, c), OrAnd(a, b, c),
           XorAnd(a, b, c), Parenthesised(a, b, c)}
          \cup (IF c = 0 THEN {} ELSE {SumQuotient(a, b, c)}) :
          a \in Lits, b \in Lits, c \in Lits }

\* Subtractions of non-negative literals in the three spacings, a chain of
\* two subtractions, and a symbol minus one.
NonNegativeLits == 0..MaxLit

Difference(a, b, before, after) == Literal(a) \o before \o <<"-">> \o after \o Literal(b)

DifferenceChain(a, b, c) ==
  Literal(a) \o <<" ","-"," ">> \o Literal(b) \o <<" ","-"," ">> \o Literal(c)

SymbolMinusOne == <<"S","Y","M","-","1">>

SubtractionTexts ==
  {SymbolMinusOne}
  \cup { Difference(a, b, sp[1], sp[2]) :
           a \in NonNegativeLits, b \in NonNegativeLits,
           sp \in {<< <<>>, <<>> >>, << <<" ">>, <<" ">> >>, << <<" ">>, <<>> >>} }
  \cup { DifferenceChain(a, b, c) :
           a \in NonNegativeLits, b \in NonNegativeLits, c \in NonNegativeLits }

ExpressionTexts == PrecedenceTexts \cup SubtractionTexts

\* The assembler in pass 1 after the line SYM EQU 5.
SymbolDefined == equ(parse(Constructed, <<"S","Y","M"," ","E","Q","U"," ","5">>))

InitExpr ==
  /\ lines \in { <<t>> : t \in ExpressionTexts }
  /\ pc = "expression"
  /\ assembler = IF lines = <<SymbolMinusOne>> THEN SymbolDefined ELSE Constructed
  /\ in_macro_def = FALSE
  /\ line_address_log = <<>>
  /\ listing = <<>>
  /\ value = 0
  /\ earlier_calls = <<>>

EvaluateExpression ==
  /\ pc = "expression"
  /\ LET r == evaluate_expression(assembler, lines[1])
     IN  /\ value' = r.val
         /\ assembler' = r.st
  /\ pc' = "evaluated"
  /\ UNCHANGED <<lines, earlier_calls, in_macro_def, line_address_log, listing>>

NextExpr == EvaluateExpression

SpecExpr == InitExpr /\ [][NextExpr]_vars

(***************************************************************************)
(* assemble called a second time on the same object with the same lines.   *)
(***************************************************************************)
\* The members a caller reads after assemble: getOutput, getSymbolTable,
\* getCrossReferenceData.
Members(st) ==
  [output |-> st.output, symbol_table |-> st.symbol_table,
   cross_reference_data |-> st.cross_reference_data]

\* The first call has returned; the caller keeps what it left and calls
\* assemble again: the object is as the first call left it, the logs of the
\* run start anew.
AssembleAgain ==
  /\ pc = "done"
  /\ earlier_calls = <<>>
  /\ earlier_calls' = <<Members(assembler)>>
  /\ assembler' = [assembler EXCEPT !.status = "running", !.sym_writes = <<>>,
                                    !.lookups = <<>>, !.org_log = <<>>,
                                    !.wrapped = FALSE]
  /\ pc' = "constructed"
  /\ line_address_log' = <<>>
  /\ listing' = <<>>
  /\ UNCHANGED <<lines, in_macro_def, value>>

NextTwice == Next \/ AssembleAgain

SpecTwice == Init /\ [][NextTwice]_vars

(***************************************************************************)
(* assemble on programs made of IF, ENDIF and NOP lines in every order:    *)
(* the conditions are true, false, and a symbol that is not defined.       *)
(***************************************************************************)
MaxIfLines == 4

IfLines == {<<"I","F"," ","1">>, <<"I","F"," ","0">>, <<"I","F"," ","N","O","W","H","E","R","E">>}

EndifLine == <<"E","N","D","I","F">>

BlockLines == IfLines \cup {EndifLine, <<"N","O","P">>}

BlockPrograms == UNION { [1..n -> BlockLines] : n \in 1..MaxIfLines }

InitConditional == StartOf(BlockPrograms)

SpecConditional == InitConditional /\ [][Next]_vars

(***************************************************************************)
(* get_number applied directly to the text of a number: the numbers of     *)
(* 0..MaxNumber and the ends of the digit counts up to 0FFFFH written in    *)
(* base 16, 8, 2 and 10, and texts that start with a digit and are no      *)
(* number.                                                                 *)
(***************************************************************************)
MaxNumber == 300

EdgeNumbers == {4095, 4096, 32767, 32768, 65535}

Numbers == 0..MaxNumber \cup EdgeNumbers

UpperDigits == <<"0","1","2","3","4","5","6","7","8","9","A","B","C","D","E","F">>

\* The digits of n in the base, the most significant first, without leading
\* zeros.
RECURSIVE digits_of(_, _, _)
digits_of(n, base, alphabet) ==
  IF n < base THEN <<alphabet[n + 1]>>
  ELSE digits_of(n \div base, base, alphabet) \o <<alphabet[(n % base) + 1]>>

HexText(n) == digits_of(n, 16, UpperDigits) \o <<"H">>

LowerHexText(n) == digits_of(n, 16, RadixDigits) \o <<"h">>

OctalText(n) == digits_of(n, 8, UpperDigits) \o <<"Q">>

BinaryText(n) == digits_of(n, 2, UpperDigits) \o <<"B">>

DecimalText(n) == digits_of(n, 10, UpperDigits)

WellFormedTexts ==
  UNION { {HexText(n), LowerHexText(n), OctalText(n), BinaryText(n), DecimalText(n)} :
          n \in Numbers }

\* Texts that start with a digit and are no number in the radix their last
\* character selects: a character that is no digit of the radix follows one
\* or two digits.
Suffixes == {<<>>, <<"H">>, <<"Q">>, <<"B">>}

Intruders == {"Z", "X", "G", "_"}

MalformedTexts ==
  { lead \o <<c>> \o suffix : lead \in {<<"1">>, <<"1","2">>}, c \in Intruders,
                              suffix \in Suffixes }
  \cup {<<"1","9","Q">>, <<"1","8","Q">>, <<"9","Q">>, <<"1","A","Q">>,
        <<"1","A","B">>, <<"1","2","B">>, <<"2","B">>, <<"1","A">>, <<"1","F">>}

NumberTexts == WellFormedTexts \cup MalformedTexts

InitNumber ==
  /\ lines \in { <<t>> : t \in NumberTexts }
  /\ pc = "number"
  /\ assembler = Constructed
  /\ in_macro_def = FALSE
  /\ line_address_log = <<>>
  /\ listing = <<>>
  /\ value = 0
  /\ earlier_calls = <<>>

GetNumber ==
  /\ pc = "number"
  /\ LET returned(r) ==
           /\ value' = r.val
           /\ assembler' = r.st
     IN  returned(get_number(assembler, lines[1]))
  /\ pc' = "converted"
  /\ UNCHANGED <<lines, earlier_calls, in_macro_def, line_address_log, listing>>

NextNumber == GetNumber

SpecNumber == InitNumber /\ [][NextNumber]_vars

(***************************************************************************)
(* Properties.                                                             *)
(***************************************************************************)
\* The run of assemble is over: it returned, or the process ended.
Terminated == pc \in {"done", "exit"}

Zeros(n) == [i \in 1..n |-> 0]

\* C1, as stated: Scenario A yields exactly the 10 bytes
\* 3E 05 06 0A 80 32 08 01 76 00, the first of them the first byte emitted
\* after the initial ORG, and the symbol table maps result to 0108H.
C1_ScenarioA_AsStated ==
  (lines = ScenarioA /\ Terminated) =>
     /\ pc = "done"
     /\ assembler.output = <<62, 5, 6, 10, 128, 50, 8, 1, 118, 0>>
     /\ "result" \in DOMAIN assembler.symbol_table
     /\ assembler.symbol_table["result"] = 264

\* C1, amended: Scenario A yields the 256 zero bytes that ORG 100H pads from
\* address 0, followed by the 10 bytes 3E 05 06 0A 80 32 09 01 76 00, and the
\* symbol table maps result (its only key) to 0109H, the address after HLT.
C1_ScenarioA ==
  (lines = ScenarioA /\ Terminated) =>
     /\ pc = "done"
     /\ assembler.output = Zeros(256) \o <<62, 5, 6, 10, 128, 50, 9, 1, 118, 0>>
     /\ DOMAIN assembler.symbol_table = {"result"}
     /\ assembler.symbol_table["result"] = 265

C1_Witness ==
  /\ lines = ScenarioA
  /\ pc = "done"
  /\ Len(assembler.output) = 266

\* C2: in a program that assembles without a fatal error, every line starts
\* at the same location counter in pass 1 and in pass 2.
C2_PassesAgree ==
  pc = "done" =>
     \A i, j \in DOMAIN line_address_log :
        line_address_log[i].line = line_address_log[j].line
           => line_address_log[i].address = line_address_log[j].address

\* The line of a program of FixedPrograms as parse reads it, the name its
\* 16-bit operand gives, and the line that defines that name.
Parsed(n) == parse(Constructed, lines[n])

OperandName(n) ==
  LET p == Parsed(n)
  IN  IF Str(p.mnemonic) = "jmp" THEN Str(to_lower(trim(p.operand1)))
      ELSE IF Str(p.mnemonic) = "lxi" THEN Str(to_lower(trim(p.operand2)))
      ELSE ""

DefiningLine(symbol) ==
  CHOOSE n \in DOMAIN lines : Str(Parsed(n).label) = symbol

\* C3: in a program of fixed-size instructions and labels, every 16-bit
\* operand that names a label emits in pass 2 the opcode, then the low byte,
\* then the high byte of the address the label received in pass 1, which is
\* the address of the label's line, be it before or after the reference;
\* Scenario B yields C3 04 00 00 76 with target = 0004H.
C3_LabelOperands ==
  pc = "done" =>
     /\ lines = ScenarioB =>
           /\ assembler.output = <<195, 4, 0, 0, 118>>
           /\ assembler.symbol_table = [k \in {"target"} |-> 4]
     /\ lines \in FixedPrograms =>
           \A n \in DOMAIN lines :
              OperandName(n) # "" =>
                 LET target  == OperandName(n)
                     address == assembler.symbol_table[target]
                     written == { i \in DOMAIN assembler.sym_writes :
                                     assembler.sym_writes[i].name = target }
                 IN  /\ \A i \in written :
                           /\ assembler.sym_writes[i].pass = 1
                           /\ assembler.sym_writes[i].value = address
                     /\ written # {}
                     /\ listing[DefiningLine(target)].address = address
                     /\ listing[n].bytes =
                           <<IF Str(Parsed(n).mnemonic) = "jmp" THEN 195 ELSE 33,
                             address % 256, address \div 256>>

C3_Witness ==
  /\ pc = "done"
  /\ lines \in FixedPrograms
  /\ \E n, m \in DOMAIN lines :
        /\ OperandName(n) # "" /\ DefiningLine(OperandName(n)) > n
        /\ OperandName(m) # "" /\ DefiningLine(OperandName(m)) < m
        /\ listing[n].bytes[3] = 1
        /\ listing[m].bytes[3] = 0

\* C4: conditional assembly selects exactly the blocks whose condition is
\* true: Scenario F, with EQ in upper case, yields exactly 3E FF 76.
C4_ScenarioF ==
  (lines = ScenarioF /\ Terminated) =>
     /\ pc = "done"
     /\ assembler.output = <<62, 255, 118>>

\* C5: LOW label and HIGH label give the low and the high byte of a defined
\* label: Scenario D assembles without error to 34 12 with val = 1234H.
C5_ScenarioD ==
  (lines = ScenarioD /\ Terminated) =>
     /\ pc = "done"
     /\ assembler.output = <<52, 18>>
     /\ "val" \in DOMAIN assembler.symbol_table
     /\ assembler.symbol_table["val"] = 4660

\* C6: two invocations of a macro whose body declares a label LOCAL, defines
\* it and jumps to it, raise no duplicate-label error and produce the symbols
\* loop_1 and loop_2 at distinct addresses, each expansion's JNZ naming the
\* label of its own expansion, whatever the spacing of the LOCAL name list
\* and the letter case of the label in the body.
C6_LocalHygiene ==
  (lines \in LocalPrograms /\ Terminated) =>
     /\ pc = "done"
     /\ {"loop_1", "loop_2"} \subseteq DOMAIN assembler.symbol_table
     /\ assembler.symbol_table["loop_1"] = 2
     /\ assembler.symbol_table["loop_2"] = 8
     /\ assembler.output = <<6, 5, 5, 194, 2, 0, 6, 3, 5, 194, 8, 0>>

\* The ORG directives pass 2 executed.
Pass2Orgs == SelectSeq(assembler.org_log, LAMBDA e : e.pass = 2)

\* The target of the initial ORG: the first ORG of pass 2 when nothing had
\* advanced the location counter before it, and 0 when there is none.
InitialOrgTarget ==
  IF Len(Pass2Orgs) > 0 /\ Pass2Orgs[1].from = 0 /\ Pass2Orgs[1].line = 1
  THEN Pass2Orgs[1].to ELSE 0

RECURSIVE LaterPadding(_)
LaterPadding(k) ==
  IF k > Len(Pass2Orgs) THEN 0
  ELSE (IF Pass2Orgs[k].line > 1 /\ Pass2Orgs[k].to > Pass2Orgs[k].from
        THEN Pass2Orgs[k].to - Pass2Orgs[k].from ELSE 0) + LaterPadding(k + 1)

\* C7, as stated: when assemble returns, the length of the output buffer is
\* the final location counter minus the target of the initial ORG plus the
\* zero bytes padded by later ORGs to a higher address.
C7_OutputLength_AsStated ==
  pc = "done" =>
     Len(assembler.output) = assembler.address - InitialOrgTarget + LaterPadding(1)

\* C7, amended: when assemble returns, and pass 2 executed no ORG to an
\* address below the location counter and never advanced the counter past
\* 0FFFFH, the length of the output buffer is the final location counter
\* (every ORG to a higher address, the initial one included, pads from the
\* counter it finds, which starts at 0).
C7_OutputLength ==
  (/\ pc = "done"
   /\ ~assembler.wrapped
   /\ \A k \in DOMAIN Pass2Orgs : Pass2Orgs[k].to >= Pass2Orgs[k].from)
     => Len(assembler.output) = assembler.address

C7_Witness ==
  /\ pc = "done"
  /\ ~assembler.wrapped
  /\ Len(Pass2Orgs) = 2
  /\ Pass2Orgs[1].line = 1 /\ Pass2Orgs[1].to > 0
  /\ Pass2Orgs[2].to > Pass2Orgs[2].from
  /\ Len(assembler.output) = MaxOrg + 5

\* C8: every key of the symbol table is inserted exactly once, in pass 1,
\* and keeps the value it was inserted with; a second definition of the same
\* case-folded name, by a label on an instruction or directive line, a
\* label-only line or an EQU, ends the run with the duplicate-label error.
C8_InsertedOnce ==
  LET w == assembler.sym_writes
  IN  /\ \A i, j \in DOMAIN w : i # j => w[i].name # w[j].name
      /\ \A i \in DOMAIN w :
            /\ w[i].pass = 1
            /\ w[i].name \in DOMAIN assembler.symbol_table
            /\ assembler.symbol_table[w[i].name] = w[i].value
      /\ DOMAIN assembler.symbol_table = { w[i].name : i \in DOMAIN w }
      /\ \A k1, k2 \in DefinitionKinds, n2 \in {<<"X">>, <<"x">>} :
            (lines = DefinitionProgram(k1, k2, n2) /\ Terminated) =>
               /\ assembler.status = "error"
               /\ assembler.error = [line |-> 5, message |-> "duplicate label: \"x\""]
               /\ assembler.source_pass = 1
               /\ assembler.symbol_table = [k \in {"x"} |-> IF k1 = "equ" THEN 7 ELSE 2]

C8_Witness ==
  /\ lines = DefinitionProgram("instruction", "label_only", <<"x">>)
  /\ Terminated
  /\ assembler.status = "error"
  /\ Len(assembler.sym_writes) = 1

\* The message of the fatal error a failed lookup raises in pass 2.
UndefinedMessage(e) ==
  (CASE e.kind = "low"  -> "undefined label in LOW operator: "
     [] e.kind = "high" -> "undefined label in HIGH operator: "
     [] OTHER           -> "undefined label in expression: ") \o e.name

\* C9: a symbol that is not in the symbol table evaluates to 0 and raises no
\* error in pass 1, and in pass 2 ends the run with the undefined-label
\* error; so when assemble returns, every symbol pass 2 evaluated was in the
\* symbol table.
C9_UndefinedSymbols ==
  LET l == assembler.lookups
  IN  /\ \A i \in DOMAIN l :
            ~l[i].found =>
               IF l[i].pass = 1
               THEN /\ l[i].value = 0
                    /\ ~(/\ i = Len(l)
                         /\ assembler.status = "error"
                         /\ assembler.error.message = UndefinedMessage(l[i]))
               ELSE /\ i = Len(l)
                    /\ assembler.status = "error"
                    /\ assembler.error.message = UndefinedMessage(l[i])
                    /\ pc = "exit"
      /\ pc = "done" => \A i \in DOMAIN l : l[i].pass = 2 => l[i].found

C9_Witness ==
  LET l == assembler.lookups
  IN  /\ pc = "exit"
      /\ assembler.status = "error"
      /\ Len(l) = 2
      /\ l[1].pass = 1 /\ ~l[1].found /\ l[1].value = 0
      /\ l[2].pass = 2 /\ ~l[2].found

\* C10: for literals a, b, c of -MaxLit..MaxLit, evaluate_expression gives
\* a + b * c the value a + (b*c), a or b and c the value a | (b & c) and
\* (a + b) * c the value (a+b)*c; likewise - and xor bind looser than * and
\* and, and + looser than /.
C10_Precedence ==
  pc = "evaluated" =>
     /\ Running(assembler)
     /\ \A a, b, c \in Lits :
           /\ lines = <<SumProduct(a, b, c)>> => value = a + (b * c)
           /\ lines = <<DifferenceProduct(a, b, c)>> => value = a - (b * c)
           /\ lines = <<OrAnd(a, b, c)>> => value = int_or(a, int_and(b, c))
           /\ lines = <<XorAnd(a, b, c)>> => value = int_xor(a, int_and(b, c))
           /\ lines = <<Parenthesised(a, b, c)>> => value = (a + b) * c
           /\ (c # 0 /\ lines = <<SumQuotient(a, b, c)>>) => value = a + cdiv(b, c)

C10_Witness ==
  /\ pc = "evaluated"
  /\ lines = <<SumProduct(1, 2, 2)>>
  /\ value = 5

\* C11: binary - is subtraction and associates to the left: for non-negative
\* literals a, b, c of 0..MaxLit the texts a-b, a - b and a -b evaluate to
\* a - b, the text a - b - c to (a - b) - c, and SYM-1 to the value of SYM
\* minus 1.
C11_Subtraction ==
  pc = "evaluated" =>
     /\ lines = <<SymbolMinusOne>> => value = SymbolDefined.symbol_table["sym"] - 1
     /\ \A a, b \in NonNegativeLits :
           /\ lines = <<Difference(a, b, <<>>, <<>>)>> => value = a - b
           /\ lines = <<Difference(a, b, <<" ">>, <<" ">>)>> => value = a - b
           /\ lines = <<Difference(a, b, <<" ">>, <<>>)>> => value = a - b
           /\ \A c \in NonNegativeLits :
                 lines = <<DifferenceChain(a, b, c)>> => value = (a - b) - c

\* C12: a character constant 'X' as the operand of an immediate instruction
\* evaluates to the code of X: MVI A,'X' assembles without error to 3E and
\* the code of X, CPI 'X' to FE and the code of X.
C12_CharConstants ==
  \A c \in CharSamples :
     /\ (lines = MviChar(c) /\ Terminated) =>
           pc = "done" /\ assembler.output = <<62, char_code(c)>>
     /\ (lines = CpiChar(c) /\ Terminated) =>
           pc = "done" /\ assembler.output = <<254, char_code(c)>>

\* The relation a relational spelling stands for.
Related(op, x, y) ==
  CASE op \in {"ne", "!="} -> x # y
    [] op \in {"eq", "="}  -> x = y
    [] op \in {"ge", ">="} -> x >= y
    [] op \in {"le", "<="} -> x <= y
    [] op \in {"gt", ">"}  -> x > y
    [] op \in {"lt", "<"}  -> x < y

\* The output of an IF block around NOP, followed by HLT.
BlockOutput(taken) == IF taken THEN <<0, 118>> ELSE <<118>>

\* C13: for literals x and y and each of the twelve relational spellings the
\* condition x op y is true exactly when the relation holds between x and y,
\* and a condition without a relational operator is true exactly when it is
\* not zero: the block of the IF is assembled in exactly those cases.
C13_Conditions ==
  Terminated =>
    \A x \in Operands :
       /\ lines = IfBlock(Literal(x)) =>
             pc = "done" /\ assembler.output = BlockOutput(x # 0)
       /\ \A y \in Operands, op \in Spellings :
             lines = Comparison(x, op, y) =>
                pc = "done" /\ assembler.output = BlockOutput(Related(Str(op), x, y))

\* C14: invoking the macro M, declared with p parameters, with a # p
\* arguments ends assembly with the fatal error "macro 'm' argument count
\* mismatch", for all p and a, a one-parameter macro invoked with no
\* argument included.
C14_ArgumentCount ==
  \A p, a \in Counts :
     (Terminated /\ lines = MacroCall(p, a) /\ a # p) =>
        /\ pc = "exit"
        /\ assembler.status = "error"
        /\ assembler.error.message = "macro 'm' argument count mismatch"

\* The bytes of a list of words: for each word in order its low byte, then
\* its high byte.
RECURSIVE WordBytes(_)
WordBytes(words) ==
  IF Len(words) = 0 THEN <<>>
  ELSE <<words[1] % 256, words[1] \div 256>> \o WordBytes(Tail(words))

\* C15: a DW line with k >= 1 operands, labelled or not, assembles; its
\* label, if any, is registered once, at the address of the first word; the
\* location counter stands 2k further at the next line in both passes; and
\* pass 2 appends, for each operand in order, its low byte then its high
\* byte.
C15_DwWords ==
  \A labelled \in BOOLEAN, words \in WordLists :
     (Terminated /\ lines = DwProgram(labelled, words)) =>
        /\ pc = "done"
        /\ assembler.output = WordBytes(words) \o <<118>>
        /\ \A pass \in {1, 2} :
              \E i \in 1..Len(line_address_log) :
                 line_address_log[i] = [pass |-> pass, line |-> 2,
                                        address |-> 2 * Len(words)]
        /\ labelled =>
              /\ "l" \in DOMAIN assembler.symbol_table
              /\ assembler.symbol_table["l"] = 0
              /\ Cardinality({ i \in 1..Len(assembler.sym_writes) :
                                  assembler.sym_writes[i].name = "l" }) = 1

\* C16: get_number applied to a text that starts with a digit and is no
\* number in the radix its suffix selects (12Z, 12XH, 1AB, 19Q, ...) ends
\* assembly with a fatal error instead of returning a value.
C16_Malformed ==
  (pc = "converted" /\ lines[1] \in MalformedTexts) => assembler.status = "error"

\* C17: for every number n, get_number returns n for the hexadecimal digits
\* of n followed by H, the octal digits followed by Q, the binary digits
\* followed by B and the decimal digits.
C17_RoundTrip ==
  pc = "converted" =>
    \A n \in Numbers :
       lines[1] \in {HexText(n), LowerHexText(n), OctalText(n), BinaryText(n),
                     DecimalText(n)}
          => Running(assembler) /\ value = n

\* C17 witness: the binary text of the largest 16-bit number was converted.
C17_Witness ==
  /\ pc = "converted"
  /\ lines = <<BinaryText(65535)>>
  /\ value = 65535

\* The lines the loop of do_pass went through in a pass, in order.
RECURSIVE LinesOfPass(_, _)
LinesOfPass(log, pass) ==
  IF Len(log) = 0 THEN <<>>
  ELSE (IF log[1].pass = pass THEN <<log[1].line>> ELSE <<>>)
         \o LinesOfPass(Tail(log), pass)

\* Once END has set assembly_finished the loop of do_pass takes no further
\* line: the next step either ends pass 1, and then pass 2 starts at the first
\* line with the flag cleared and the symbol table kept, or ends the run with
\* the location counter, the output and the symbol table as END left them.
AfterEndStep ==
  (pc = "pass" /\ assembler.assembly_finished) =>
     /\ line_address_log' = line_address_log
     /\ assembler'.symbol_table = assembler.symbol_table
     /\ \/ /\ pc' = "pass"
           /\ assembler.source_pass = 1 /\ assembler'.source_pass = 2
           /\ ~assembler'.assembly_finished
           /\ assembler'.lineno = 0
        \/ /\ pc' # "pass"
           /\ assembler'.address = assembler.address
           /\ assembler'.output = assembler.output

\* C18: once a line executes END every later source line is ignored in that
\* pass (it changes neither the location counter, the output buffer nor the
\* symbol table), and the flag is cleared between the passes, so that pass 2
\* goes through the same lines as pass 1, up to END.
C18_EndStops ==
  /\ [](pc = "done" => LinesOfPass(line_address_log, 2) = LinesOfPass(line_address_log, 1))
  /\ [][AfterEndStep]_vars

\* C18 witness: END on line 2 was executed in both passes, and line 3, which
\* defines x, was not reached.
C18_Witness ==
  /\ pc = "done"
  /\ lines = EndProgram(<<"L","1",":"," ","H","L","T">>, <<"X"," ","E","Q","U"," ","5">>)
  /\ assembler.assembly_finished
  /\ LinesOfPass(line_address_log, 1) = <<1, 2>>
  /\ LinesOfPass(line_address_log, 2) = <<1, 2>>
  /\ assembler.output = <<118>>
  /\ DOMAIN assembler.symbol_table = {"l1"}

\* C19: a second call of assemble on the same object with the same lines
\* leaves the output buffer, the symbol table and the cross-reference store
\* equal to what the first call, on the fresh object, left.
C19_SecondCall ==
  (pc = "done" /\ Len(earlier_calls) = 1) => Members(assembler) = earlier_calls[1]

\* C20: every run of assemble that does not return ends in report_error, a
\* diagnostic with the 1-indexed line and then the exit: no input ends it in
\* another way, a division by zero (by a literal, or by a forward reference
\* that is 0 in pass 1) and a negative decimal literal below the least int
\* included.
C20_ReportedErrors ==
  (pc = "exit" /\ assembler.status # "out_of_model") =>
     /\ assembler.status = "error"
     /\ assembler.error.line \in 1..(Len(lines) + 1)

\* The opcode of a register-pair mnemonic with pair B.
PairBase(mn) ==
  CASE mn = "lxi" -> 1 [] mn = "inx" -> 3 [] mn = "dad" -> 9 [] mn = "dcx" -> 11
    [] mn = "pop" -> 193 [] mn = "push" -> 197

\* The encoding of a pair name with a mnemonic, -1 when the mnemonic does not
\* take it.
PairCode(mn, op) ==
  IF op \in {"b", "bc"} THEN 0
  ELSE IF op \in {"d", "de"} THEN 16
  ELSE IF op \in {"h", "hl"} THEN 32
  ELSE IF op = "psw" /\ mn \in {"push", "pop"} THEN 48
  ELSE IF op = "sp" /\ mn \in {"lxi", "inx", "dcx", "dad"} THEN 48
  ELSE -1

\* What a one-line program with a register-pair instruction must end in.
PairOutcome(mn, op) ==
  IF PairCode(mn, op) < 0
  THEN pc = "exit" /\ assembler.status = "error" /\ assembler.output = <<>>
  ELSE /\ pc = "done"
       /\ assembler.output = <<PairBase(mn) + PairCode(mn, op)>>
                               \o (IF mn = "lxi" THEN <<1, 0>> ELSE <<>>)

\* C21: PSW is taken (encoded 30H) by PUSH and POP only and is fatal with
\* LXI, INX, DCX and DAD; SP is taken (encoded 30H) by LXI, INX, DCX and DAD
\* only and is fatal with PUSH and POP; B/BC, D/DE, H/HL encode 00H, 10H, 20H
\* with all six mnemonics; every other operand is fatal.
C21_RegisterPairs ==
  \A mn \in PairMnemonics, op \in PairOperands :
     (Terminated /\ lines = PairProgram(mn, op)) =>
        PairOutcome(Str(to_lower(mn)), Str(to_lower(op)))

\* C21 witness: PUSH PSW, which only the stack mnemonics take, was assembled
\* to F5H.
C21_Witness ==
  /\ pc = "done"
  /\ lines = PairProgram(<<"P","U","S","H">>, <<"P","S","W">>)
  /\ assembler.output = <<245>>

\* C22: an immediate operand is truncated, not range-checked: for every
\* value v of the operand expression, negative values and values above the
\* width of the field included, an immediate-8 instruction emits the one byte
\* v mod 256 and an immediate-16 or direct-address instruction emits
\* (v mod 65536) mod 256, then (v mod 65536) div 256, without an error.
C22_Truncation ==
  \A i \in ImmediateInstructions, o \in ImmediateOperands :
     (Terminated /\ lines = ImmediateProgram(i, o)) =>
        /\ pc = "done"
        /\ assembler.output =
             IF i.width = 8 THEN <<i.opcode, o.v % 256>>
             ELSE <<i.opcode, (o.v % 65536) % 256, (o.v % 65536) \div 256>>

\* C22 witness: LXI H,-65537 was assembled to 21 FF FF.
C22_Witness ==
  /\ pc = "done"
  /\ lines = <<<<"L","X","I"," ","H",",","-","6","5","5","3","7">>>>
  /\ assembler.output = <<33, 255, 255>>

\* C23: a macro defined with an empty parameter list and invoked with no
\* argument is expanded: the expansion ends and each line of the body (here
\* HLT) is processed unchanged.
C23_EmptyParameterList ==
  (Terminated /\ lines = MacroCall(0, 0)) =>
     /\ pc = "done"
     /\ assembler.output = <<118>>

\* The IF lines less the ENDIF lines among the first k lines.
RECURSIVE OpenBlocks(_)
OpenBlocks(k) ==
  IF k = 0 THEN 0
  ELSE OpenBlocks(k - 1) + (IF lines[k] \in IfLines THEN 1
                            ELSE IF lines[k] = EndifLine THEN -1 ELSE 0)

\* Every entry of the IF stack is true (an empty stack is active).
Active(st) == \A i \in 1..Len(st.if_stack) : st.if_stack[i]

\* One line of a pass on a program of IF, ENDIF and NOP lines.  An IF met
\* while inactive pushes false and looks no symbol up; an IF met while active
\* pushes the value of its condition (the undefined symbol is 0 in pass 1 and
\* fatal in pass 2); an ENDIF pops one entry (it is fatal on an empty stack);
\* a NOP leaves the stack alone and is processed, which advances the location
\* counter, exactly when the stack is active.
BlockStep ==
  (pc = "pass" /\ line_address_log' # line_address_log) =>
     LET line == lines[assembler.lineno + 1]
         stack == assembler.if_stack
     IN  IF line \in IfLines
         THEN IF ~Active(assembler)
              THEN /\ pc' = "pass"
                   /\ assembler'.if_stack = Append(stack, FALSE)
                   /\ assembler'.lookups = assembler.lookups
              ELSE IF line = <<"I","F"," ","N","O","W","H","E","R","E">> /\ assembler.source_pass = 2
              THEN pc' = "exit" /\ assembler'.status = "error"
              ELSE /\ pc' = "pass"
                   /\ assembler'.if_stack = Append(stack, line = <<"I","F"," ","1">>)
         ELSE IF line = EndifLine
         THEN IF Len(stack) = 0
              THEN pc' = "exit" /\ assembler'.status = "error"
              ELSE /\ pc' = "pass"
                   /\ assembler'.if_stack = SubSeq(stack, 1, Len(stack) - 1)
         ELSE /\ pc' = "pass"
              /\ assembler'.if_stack = stack
              /\ assembler'.address =
                   IF Active(assembler) THEN assembler.address + 1
                   ELSE assembler.address
              /\ Active(assembler) <=> assembler'.lookups # assembler.lookups
                                        \/ assembler'.address # assembler.address

\* C24: a line other than IF and ENDIF is processed exactly when every entry
\* of if_stack is true; an IF met while inactive pushes false without
\* evaluating its condition; each ENDIF pops exactly one entry; so during a
\* pass the depth of the stack is the number of IF lines less the number of
\* ENDIF lines processed so far, inside suppressed regions too.
C24_IfStack ==
  /\ [](pc = "pass" => Len(assembler.if_stack) = OpenBlocks(assembler.lineno))
  /\ [][BlockStep]_vars

\* C24 witness: in pass 2 an IF with an undefined condition was pushed as
\* false inside a suppressed region, and the run went on.
C24_Witness ==
  /\ pc = "pass"
  /\ assembler.source_pass = 2
  /\ lines = <<<<"I","F"," ","0">>, <<"I","F"," ","N","O","W","H","E","R","E">>, <<"E","N","D","I","F">>, <<"E","N","D","I","F">>>>
  /\ assembler.lineno = 2
  /\ assembler.if_stack = <<FALSE, FALSE>>

\* C25: in pass 2, as long as no ORG has set the location counter below its
\* value and the counter has not passed 0FFFFH, the length of the output is
\* the location counter after every line (each instruction, DB, DW and DS
\* line appends as many bytes as it advances the counter, an ORG to a higher
\* address appends target - counter zero bytes), so that the bytes a line
\* assembled at address a stand at index a of the output.
C25_AddressIsIndex ==
  (/\ pc \in {"pass", "done"}
   /\ assembler.source_pass = 2
   /\ ~assembler.wrapped
   /\ \A k \in DOMAIN Pass2Orgs : Pass2Orgs[k].to >= Pass2Orgs[k].from)
     => /\ Len(assembler.output) = assembler.address
        /\ \A i \in DOMAIN listing :
              SubSeq(assembler.output, listing[i].address + 1,
                     listing[i].address + Len(listing[i].bytes)) = listing[i].bytes

\* C25 witness: a DB line of an expression, a group, a string and an
\* expression was assembled at address 2, after the padding of ORG 2, and the
\* HLT after it at address 8.
C25_Witness ==
  /\ pc = "done"
  /\ lines = StatementProgram(<<"D","B"," ","1",",","<","2",",","3",">",",","'","x","y","'",",","4">>)
  /\ listing[2].address = 2
  /\ listing[2].bytes = <<1, 2, 3, 120, 121, 4>>
  /\ listing[3].address = 8
  /\ Len(assembler.output) = 9

\* The bytes of a list of DB operands, in order.
RECURSIVE DbBytes(_)
DbBytes(operands) ==
  IF Len(operands) = 0 THEN <<>>
  ELSE operands[1].bytes \o DbBytes(Tail(operands))

\* C26: a labelled DB with any number of operands (expressions, quoted
\* strings, character constants and <...> groups in any order, a group or a
\* string first included) inserts its label into the symbol table exactly
\* once, at the address of the first byte it emits, and raises no
\* duplicate-label error on its later operands.
C26_DbLabel ==
  \A operands \in DbOperandLists :
     (Terminated /\ lines = LabelledDb(operands)) =>
        /\ pc = "done"
        /\ assembler.output = <<0>> \o DbBytes(operands) \o <<118>>
        /\ DOMAIN assembler.symbol_table = {"l"}
        /\ assembler.symbol_table["l"] = 1
        /\ assembler.sym_writes = <<[name |-> "l", value |-> 1, pass |-> 1, line |-> 2]>>

\* C26 witness: a labelled DB whose first operand is a group, followed by a
\* string and an expression, was assembled.
C26_Witness ==
  /\ pc = "done"
  /\ lines = <<<<"N","O","P">>, <<"L",":"," ","D","B"," ","<","1",",","2",">",",","'","x","y","'",",","7">>, <<"H","L","T">>>>
  /\ assembler.symbol_table["l"] = 1
  /\ assembler.output = <<0, 1, 2, 120, 121, 7, 118>>

\* The duplicate-label messages that the symbols of a table can raise.
DuplicateMessages(table) == { "duplicate label: \"" \o k \o "\"" : k \in DOMAIN table }

\* A step of pass 2, a line or the end of the pass, leaves the symbol table
\* and the macro table as it finds them, and ends in no duplicate-label
\* error.
Pass2Step ==
  (pc = "pass" /\ assembler.source_pass = 2) =>
     /\ assembler'.symbol_table = assembler.symbol_table
     /\ assembler'.macros = assembler.macros
     /\ assembler'.error.message \notin DuplicateMessages(assembler.symbol_table)

\* The end of pass 1 hands both tables to pass 2 as they are.
Pass1Ends ==
  (pc = "pass" /\ assembler.source_pass = 1 /\ assembler'.source_pass = 2) =>
     /\ assembler'.symbol_table = assembler.symbol_table
     /\ assembler'.macros = assembler.macros

\* C27: pass 2 never changes the symbol table or the macro table: every line
\* it processes (labelled instructions, label-only lines, EQU, DB, DW, DS,
\* macro expansions) leaves both as pass 1 left them, and no duplicate-label
\* error is raised in pass 2.
C27_Pass2Frame == [][Pass2Step /\ Pass1Ends]_vars

\* C27 witness: pass 2 has gone through all lines of a program that defines
\* a macro and, in pass 1, two symbols or more.
C27_Witness ==
  /\ pc = "pass"
  /\ assembler.source_pass = 2
  /\ assembler.lineno = Len(lines)
  /\ DOMAIN assembler.macros # {}
  /\ Cardinality(DOMAIN assembler.symbol_table) >= 2
  /\ \A i \in DOMAIN assembler.sym_writes : assembler.sym_writes[i].pass = 1

\* C28: $ in an operand is the location counter at the start of its line:
\* after k one-byte lines JMP $ emits the address k of its own opcode,
\* DB $,$ emits k for both bytes, and X EQU $ binds x to k, the address of
\* the next byte emitted.
C28_Here ==
  \A k \in Pads :
     /\ (Terminated /\ lines = JmpHere(k)) =>
           pc = "done" /\ assembler.output = Zeros(k) \o <<195, k, 0>>
     /\ (Terminated /\ lines = DbHere(k)) =>
           pc = "done" /\ assembler.output = Zeros(k) \o <<k, k>>
     /\ (Terminated /\ lines = EquHere(k)) =>
           /\ pc = "done"
           /\ assembler.symbol_table["x"] = k
           /\ assembler.output = Zeros(k) \o <<118>>

\* C29: when assemble returns, the value stored for an EQU symbol is its
\* defining expression evaluated against the final symbol table, also when
\* the expression names a symbol defined on a later line: with A EQU B (or
\* B + 1) and B EQU v in either order, a = v (or v + 1).
C29_EquValues ==
  \A a_line \in EquOfB, v \in EquValues :
     (Terminated /\ lines \in {ForwardEqu(a_line, v), BackwardEqu(a_line, v)}) =>
        /\ pc = "done"
        /\ assembler.symbol_table["b"] = v
        /\ assembler.symbol_table["a"] = IF a_line = <<"A"," ","E","Q","U"," ","B">> THEN v ELSE v + 1

\* The cross-reference entries of a symbol, none when it has no key.
Entries(st, k) ==
  IF k \in DOMAIN st.cross_reference_data THEN st.cross_reference_data[k] ELSE <<>>

\* How many entries of a sequence satisfy a test.
Count(s, Test(_)) == Cardinality({ i \in DOMAIN s : Test(s[i]) })

\* The line is an EQU: it stores its symbol without add_label.
IsEqu(line) == find(to_lower(line), <<" ","e","q","u"," ">>, 1) # 0

\* One line of a pass and the cross-reference store: the entries of a symbol k are kept and those added
\* are n (a reference) or -n (a definition), n being the 1-indexed line; as
\* many references are added as lookups of k succeeded on the line; one
\* definition is added when the line inserts k as its label, none otherwise.
XrefStep ==
  (pc = "pass" /\ line_address_log' # line_address_log) =>
     LET n == assembler.lineno + 1
         old(k) == Entries(assembler, k)
         new(k) == SubSeq(Entries(assembler', k), Len(old(k)) + 1,
                          Len(Entries(assembler', k)))
         looked_up(k) ==
           Cardinality({ i \in (Len(assembler.lookups) + 1)..Len(assembler'.lookups) :
                           /\ assembler'.lookups[i].name = k
                           /\ assembler'.lookups[i].kind = "symbol"
                           /\ assembler'.lookups[i].found })
         inserted(k) == /\ k \notin DOMAIN assembler.symbol_table
                        /\ k \in DOMAIN assembler'.symbol_table
     IN  \A k \in DOMAIN assembler'.symbol_table \cup DOMAIN assembler'.cross_reference_data :
            /\ SubSeq(Entries(assembler', k), 1, Len(old(k))) = old(k)
            /\ \A i \in DOMAIN new(k) : new(k)[i] \in {n, -n}
            /\ Count(new(k), LAMBDA e : e > 0) = looked_up(k)
            /\ Count(new(k), LAMBDA e : e < 0) =
                 IF inserted(k) /\ ~IsEqu(lines[n]) THEN 1 ELSE 0

\* C30: during and after one assemble on a fresh object every key of the
\* cross-reference store is a key of the symbol table, every symbol inserted
\* as the label of a line has exactly one negative entry, minus the
\* 1-indexed number of that line, and every positive entry is the 1-indexed
\* line of a lookup of the symbol that succeeded.
C30_CrossReference ==
  /\ [](DOMAIN assembler.cross_reference_data \subseteq DOMAIN assembler.symbol_table)
  /\ [][XrefStep]_vars

\* C30 witness: Scenario B returned; target, defined on line 4 and looked up
\* with success on line 2 in pass 2, has the entries -4 and 2.
C30_Witness ==
  /\ pc = "done"
  /\ lines = ScenarioB
  /\ assembler.cross_reference_data = [k \in {"target"} |-> <<-4, 2>>]

====
